---------------------------- MODULE Spec2Model ----------------------------
(***************************************************************************)
(* A model of the analysis runners of expert-bi (backend/python):          *)
(*   anomaly_detector.py, trend_detector.py     (column runners)           *)
(*   correlation_analyzer.py                    (dataset runner)           *)
(*   type_detector.py, data_profiler.py         (dataset runners)          *)
(*   insight_generator.py                       (insights mode)            *)
(*   semantic_analyzer.py                       (column classifier)        *)
(* and of the insights service of the API (app/services/                   *)
(* insights_generator.py, called by the route get_insights).               *)
(* Each group has its own variables and its own specification: SpecColumn, *)
(* SpecCorr, SpecTypes, SpecInsights, SpecSemantic; SpecRunners is         *)
(* SpecColumn and SpecCorr together.                                       *)
(*                                                                         *)
(* Numbers are integers.  Every comparison the code makes on floats is     *)
(* made here on exact rationals, cross-multiplied so that no division is   *)
(* needed (z > 3 becomes d^2 * (n-1) > 9 * n * v, and so on).              *)
(* Row labels are pandas' default RangeIndex labels 0 .. n-1; positions    *)
(* (iloc) are 0-based too.  TLA+ sequences are 1-based, so label l of a    *)
(* column is cells[l + 1].                                                 *)
(*                                                                         *)
(* Library calls are modelled by what they return: pandas dropna,          *)
(* quantile, mean and std exactly; sklearn's IsolationForest as a choice   *)
(* among its possible outcomes; scipy's p-values, the mutual-information   *)
(* score and the interpretation strings are left out of the documents.     *)
(* The regular expressions of the type detector are tables of the texts    *)
(* they match; a decision tree of one feature is modelled by whether it    *)
(* splits at all.                                                          *)
(***************************************************************************)
EXTENDS Integers, Sequences, FiniteSets, TLC

VARIABLES
    runner,        \* which script runs: "anomaly" | "trend" | "correlation" |
                   \* "types" | "profiler" | "session" (a TypeDetector used as
                   \* a library) | "api" (the insights route) | "insights" |
                   \* "generator" (an InsightGenerator used as a library)
    argv,          \* sys.argv of the column runners
    csv,           \* the file at csv_path: [readable, name, col]
    forest,        \* what sklearn's IsolationForest does on this run
    df,            \* self.df of the column runners (NoDf before load_data)
    pc,            \* position of main(): "start" | "loaded" | "exited"
    stdout,        \* the JSON documents printed, in order
    exit_status,   \* process exit status (-1 while running)
    detected,      \* the three detectors' returns of the last detect_anomalies
    cargv,         \* sys.argv of the correlation runner
    cfile,         \* the file of the correlation runner: [readable, cols]
    cdf,           \* self.df of CorrelationAnalyzer
    cpc,           \* position of correlation main()
    cstdout,       \* documents printed by the correlation runner
    cexit,         \* exit status of the correlation runner
    retained,      \* every pair analyze_correlations retained, before the cut
    targv,         \* sys.argv of the type detector / the profiler
    tfile,         \* the file at their csv_path: [readable, cols]
    tdf,           \* self.df of TypeDetector / DataProfiler
    tpc,           \* position of their main(), or of the session
    tstdout,       \* the JSON documents they printed
    texit,         \* their exit status (-1 while running)
    traceback,     \* TRUE when main() ended by an exception nobody caught
    tcalls,        \* the calls of detect_column_type made on one TypeDetector
    np_state,      \* the state of numpy's global random generator
    sreq,          \* the request GET /{dataset_id}/insights and what it finds
    sresp,         \* the response of the route (NoResponse before it answers)
    iargs,         \* which options the insight generator's command line has
    ifiles,        \* the files it names: [data_readable, metadata_readable,
                   \* output_writable, cols]
    generator,     \* the five lists of the InsightGenerator instance
    ipc,           \* position of the insight generator: "start" | "ready" |
                   \* "done"
    ireturns,      \* what the calls of generate_insights returned, in order
    istages,       \* the stages each of these calls entered, in order
    ioutput,       \* the file at --output (NoFile until it is written)
    istdout,       \* the lines printed on standard output
    istderr,       \* the lines printed on standard error
    iexit,         \* exit status of the insight generator (-1 while running)
    aargs,         \* which options the semantic analyzer's command line has
    ainput,        \* its input file: [readable, output_writable, columns,
                   \* numbers_parse]
    apc,           \* position of the semantic analyzer: "start" | "ready" |
                   \* "done"
    areturns,      \* the calls made on a SemanticColumnAnalyzer, with results
    aoutput,       \* the file at --output (NoFile until it is written)
    astdout,       \* the lines printed on standard output
    astderr,       \* the lines printed on standard error
    aexit          \* exit status of the semantic analyzer (-1 while running)

colVars == <<argv, csv, forest, df, pc, stdout, exit_status, detected>>
corrVars == <<cargv, cfile, cdf, cpc, cstdout, cexit, retained>>
typeVars == <<targv, tfile, tdf, tpc, tstdout, texit, traceback, tcalls, np_state>>
insVars == <<sreq, sresp, iargs, ifiles, generator, ipc, ireturns, istages, ioutput,
             istdout, istderr, iexit>>
semVars == <<aargs, ainput, apc, areturns, aoutput, astdout, astderr, aexit>>
vars == <<runner, colVars, corrVars, typeVars, insVars, semVars>>

---------------------------------------------------------------------------
(* Bounds of the model.                                                    *)

\* Longest column of the small, exhaustively varied family.
MaxRows == 12
\* Length of the long columns, which have more than 50 flagged rows.
BigRows == 110
\* Longest column of the trend runner's own family.
TrendRows == 17
\* Longest of the short columns of the type detector and the profiler.
TypeRows == 6
\* Most calls of one method on one TypeDetector or InsightGenerator.
MaxCalls == 2
\* The rows of the larger frames of the insights route.
SvcRows == 6
\* The rows of its long frames, where one row is less than 5% of the rows.
LongRows == 21
\* The columns of the widest frame of the insights route.
WideCols == 30
\* The rows of the larger frames of the insight generator.
FrameRows == 11
\* The rows of its long time series.
LineRows == 35

(* Program constants.                                                      *)

\* detect_anomalies: len(data) < 10 raises.
MinAnomalyPoints == 10
\* detect_trend: len(data) < 3 raises.
MinTrendPoints == 3
\* z-score threshold.
ZThreshold == 3
\* anomalies_list[:50]
TopAnomalies == 50
\* the denominator of the confidence: len(methods_detected) / 3.0
NMethods == 3

\* correlations[:20]
TopCorrelations == 20
\* analyze_correlations: len(common_idx) < 3 skips the pair.
MinCommon == 3
\* mutual_info_regression's default n_neighbors.
MINeighbors == 3
\* _detect_changepoints: len(data) < 10 returns no changepoint.
MinChangeData == 10
\* changepoints[:5]
MaxChangepoints == 5
\* detect_column_type: sample_size = min(1000, len(non_null_data))
SampleCap == 1000
\* detect_column_type: sample(n = sample_size, random_state = 42)
SampleSeed == 42
\* DataProfiler._is_date_column: sample = col_data.head(100)
ProfilerHead == 100
\* _detect_unique_values: unique_count < 20
UniqueLimit == 20
\* detect_outliers: df[col].nunique() < 5 skips the column.
MinUnique == 5
\* analyze_trends: len(df_temp) > 10
MinTrendRows == 10
\* generate_summary_statistics: total_rows > 100000
LargeRows == 100000
\* compile_final_insights: self.insights[:10]
TopInsights == 10
\* compile_final_insights: self.feature_importance[:5]
TopDrivers == 5
\* _detect_changepoints: window = 5
ChangeWindow == 5
\* Longest dataset of the correlation runner, in rows (the shortest has
\* MinCommon rows).
CorrRows == 5
\* Most columns of a dataset of the correlation runner.
MaxCols == 7

NoDf == [loaded |-> FALSE]
NoneVal == "None"
NoDetected == [ran |-> FALSE]
NoResponse == [status |-> 0]
NoFile == [written |-> FALSE]
NoGenerator == [made |-> FALSE]

---------------------------------------------------------------------------
(* Helpers on sequences and sets of integers.                              *)

Range(s) == {s[i] : i \in DOMAIN s}

\* f[lo] + ... + f[hi], summed by halves.
RECURSIVE SumFn(_, _, _)
SumFn(f, lo, hi) ==
    IF lo > hi THEN 0
    ELSE IF lo = hi THEN f[lo]
    ELSE LET mid == (lo + hi) \div 2
         IN  SumFn(f, lo, mid) + SumFn(f, mid + 1, hi)

SumSeq(s) == SumFn(s, 1, Len(s))

SumSq(s) == SumFn([k \in DOMAIN s |-> s[k] * s[k]], 1, Len(s))

\* The function f of domain 1 .. n as a sequence with its elements computed.
AsSeq(f) == f \o <<>>

\* sorted(S) of a set of naturals, ascending: the members of S among
\* 0, 1, ..., max(S), in that order.
SortedSeq(S) ==
    LET hi == IF S = {} THEN -1 ELSE CHOOSE x \in S : \A y \in S : y <= x
    IN  SelectSeq([i \in 1 .. hi + 1 |-> i - 1], LAMBDA l : l \in S)

\* list.sort(key = ..., reverse = True) on the list s, where gt[i, j] says
\* that the key of s[i] is greater than the key of s[j]: a stable sort, so
\* the element at i goes behind every element of greater key and every
\* earlier element of equal key.
SortDesc(s, gt) ==
    LET pos == AsSeq([i \in DOMAIN s |->
                  1 + Cardinality({j \in DOMAIN s :
                                     \/ gt[j, i]
                                     \/ j < i /\ ~gt[i, j]})])
    IN  AsSeq([p \in DOMAIN s |-> s[CHOOSE i \in DOMAIN s : pos[i] = p]])

\* The k-th smallest (k from 0) of a non-empty sequence of integers.
Kth(s, k) ==
    CHOOSE v \in Range(s) :
        /\ Cardinality({i \in DOMAIN s : s[i] < v}) <= k
        /\ Cardinality({i \in DOMAIN s : s[i] <= v}) > k

Abs(x) == IF x < 0 THEN -x ELSE x

---------------------------------------------------------------------------
(* pandas: a column, dropna, quantile.                                     *)

\* A column: kind "numeric" (ints and NaN) or "text" (object dtype: strings
\* and NaN; the correlation runner's frames code the strings as integers),
\* cells by label, nulls = labels whose cell is missing.
Labels(col) == 0 .. (Len(col.cells) - 1)

\* Series.dropna(): the non-null cells, keeping their labels.
dropna(col) ==
    LET idx == SortedSeq({l \in Labels(col) : l \notin col.nulls})
    IN  [kind   |-> col.kind,
         index  |-> idx,
         values |-> AsSeq([k \in 1 .. Len(idx) |-> col.cells[idx[k] + 1]])]

\* 4 * Series.quantile(q4 / 4), linear interpolation between order
\* statistics: pos = q * (n - 1), lo = floor(pos), frac = pos - lo.
Quantile4(values, q4) ==
    LET n   == Len(values)
        p4  == q4 * (n - 1)
        lo  == p4 \div 4
        r   == p4 % 4
        a   == Kth(values, lo)
    IN  IF r = 0 THEN 4 * a
        ELSE 4 * a + r * (Kth(values, lo + 1) - a)

---------------------------------------------------------------------------
(* anomaly_detector.py                                                     *)

\* n * (n * sum(x^2) - sum(x)^2) / (n^2 * (n-1)) is the sample variance
\* (pandas std, ddof = 1); VarNum is n * sum(x^2) - sum(x)^2 >= 0.
VarNum(values) == Len(values) * SumSq(values) - SumSeq(values) * SumSeq(values)

\* |x - mean| / std > 3 on exact rationals, n = len, S = sum, V = VarNum:
\*   (n x - S)^2 (n - 1) > 9 n V
ZAbove(n, S, V, x) ==
    LET d == n * x - S
    IN  d * d * (n - 1) > ZThreshold * ZThreshold * n * V

\* data.index[mask].tolist(): the labels at the positions where the mask
\* holds, in index order.
MaskLabels(data, mask) ==
    SortedSeq({data.index[k] : k \in {j \in DOMAIN data.index : mask[j]}})

\* z_scores > threshold, line 97-99.
ZMask(data) ==
    LET n == Len(data.values)
        S == SumSeq(data.values)
        V == VarNum(data.values)
    IN  AsSeq([k \in DOMAIN data.values |-> ZAbove(n, S, V, data.values[k])])

\* The z-score detector with the std == 0 guard left out: the division of
\* line 97 is made whatever std is.
statistical_unguarded(data) ==
    LET ix == MaskLabels(data, ZMask(data))
    IN  [indices |-> ix,
         summary |-> [method |-> "z-score", threshold |-> ZThreshold,
                      count |-> Len(ix)],
         divided_by_zero |-> (VarNum(data.values) = 0)]

\* _detect_statistical_anomalies.  divided_by_zero observes whether line 97
\* divided by a std of 0.
detect_statistical_anomalies(data) ==
    IF VarNum(data.values) = 0
    THEN [indices |-> <<>>,
          summary |-> [method |-> "z-score", threshold |-> ZThreshold,
                       count |-> 0],
          divided_by_zero |-> FALSE]
    ELSE LET ix == MaskLabels(data, ZMask(data))
         IN  [indices |-> ix,
              summary |-> [method |-> "z-score", threshold |-> ZThreshold,
                           count |-> Len(ix)],
              divided_by_zero |-> (VarNum(data.values) = 0)]

\* _detect_iqr_anomalies.  The bounds are kept times 8:
\*   8 (Q1 - 1.5 IQR) = 2 (4 Q1) - 3 (4 Q3 - 4 Q1).
detect_iqr_anomalies(data) ==
    LET Q1x4 == Quantile4(data.values, 1)
        Q3x4 == Quantile4(data.values, 3)
        IQRx4 == Q3x4 - Q1x4
        lower8 == 2 * Q1x4 - 3 * IQRx4
        upper8 == 2 * Q3x4 + 3 * IQRx4
        ix == MaskLabels(data, [k \in DOMAIN data.values |->
                                   \/ 8 * data.values[k] < lower8
                                   \/ 8 * data.values[k] > upper8])
    IN  [indices |-> ix,
         summary |-> [method |-> "iqr", lower_bound8 |-> lower8,
                      upper_bound8 |-> upper8, count |-> Len(ix)]]

\* _detect_isolation_forest_anomalies.  fo is what sklearn does: it raises
\* inside the try block, or fit_predict marks the labels fo.flagged as -1.
detect_isolation_forest_anomalies(data, fo) ==
    IF fo.raises
    THEN [indices |-> <<>>,
          summary |-> [method |-> "isolation_forest",
                       error |-> "sklearn error", count |-> 0]]
    ELSE LET ix == SelectSeq(data.index, LAMBDA l : l \in fo.flagged)
         IN  [indices |-> ix,
              summary |-> [method |-> "isolation_forest",
                           contamination10 |-> 1, count |-> Len(ix)]]

\* The list left in the order of sorted(all_indices): the sort forgotten.
SortByConfidenceSkipped(s) == s

\* anomalies_list.sort(key = lambda x: x['confidence'], reverse = True)
SortByConfidence(s) ==
    SortDesc(s, [i, j \in DOMAIN s |-> s[i].confidence[1] > s[j].confidence[1]])

\* anomalies_list[:50]
Head50(s) == SubSeq(s, 1, IF Len(s) < TopAnomalies THEN Len(s) ELSE TopAnomalies)

\* The three tests chained with elif: only the first detector is named.
MethodsDetectedElif(idx, st, iq, fo) ==
    IF idx \in Range(st.indices) THEN <<"z-score">>
    ELSE IF idx \in Range(iq.indices) THEN <<"iqr">>
    ELSE IF idx \in Range(fo.indices) THEN <<"isolation_forest">>
    ELSE <<>>

\* The methods_detected of label idx: the three "if idx in ..." of lines 52-57.
MethodsDetected(idx, st, iq, fo) ==
    (IF idx \in Range(st.indices) THEN <<"z-score">> ELSE <<>>)
    \o (IF idx \in Range(iq.indices) THEN <<"iqr">> ELSE <<>>)
    \o (IF idx \in Range(fo.indices) THEN <<"isolation_forest">> ELSE <<>>)

\* One record of anomalies_list.  value = float(data.iloc[idx]): idx is a
\* label of data.index used as a position.  confidence is kept as the pair
\* <<len(methods_detected), 3>>.
AnomalyRecord(data, idx, st, iq, fo) ==
    LET m == MethodsDetected(idx, st, iq, fo)
    IN  [index |-> idx,
         value |-> data.values[idx + 1],
         methods_detected |-> m,
         confidence |-> <<Len(m), NMethods>>]

\* len(data) < 10, line 30
TooFewForAnomalies(data) == Len(data.values) < MinAnomalyPoints

\* detect_anomalies were its totals taken from the list once cut to 50.
detect_anomalies_after_cut(col, column_name, fout) ==
    LET data == dropna(col)
    IN
    IF TooFewForAnomalies(data)
    THEN [raised |-> TRUE,
          error |-> "Not enough data points for anomaly detection",
          detected |-> NoDetected]
    ELSE IF data.kind = "text"
    THEN \* data.mean() of an object column of strings: TypeError, line 91
         [raised |-> TRUE, error |-> "could not convert string to float",
          detected |-> [ran |-> TRUE, failed |-> {"z-score"}]]
    ELSE
    LET st == detect_statistical_anomalies(data)
        iq == detect_iqr_anomalies(data)
        fo == detect_isolation_forest_anomalies(data, fout)
        all_indices == Range(st.indices) \cup Range(iq.indices) \cup Range(fo.indices)
        order == SortedSeq(all_indices)
        det == [ran |-> TRUE, statistical |-> st, iqr |-> iq,
                isolation_forest |-> fo,
                failed |-> IF fout.raises THEN {"isolation_forest"} ELSE {}]
    IN
    IF \E idx \in all_indices : idx >= Len(data.values)
    THEN \* data.iloc[idx] out of bounds: IndexError, line 49
         [raised |-> TRUE,
          error |-> "single positional indexer is out-of-bounds",
          detected |-> det]
    ELSE
    LET anomalies_list ==
            SortByConfidence(AsSeq([k \in 1 .. Len(order) |->
                                AnomalyRecord(data, order[k], st, iq, fo)]))
    IN  [raised |-> FALSE,
         detected |-> det,
         value |->
           [column |-> column_name,
            total_data_points |-> Len(data.values),
            total_anomalies |-> Len(Head50(anomalies_list)),
            \* (len(anomalies_list) / len(data)) * 100, as a fraction
            anomaly_percentage |-> <<100 * Len(Head50(anomalies_list)), Len(data.values)>>,
            anomalies |-> Head50(anomalies_list),
            methods |-> [statistical |-> st.summary,
                         iqr |-> iq.summary,
                         isolation_forest |-> fo.summary]]]

\* detect_anomalies, given the dataframe's column and sklearn's behaviour.
\* Returns [raised |-> TRUE, error, detected] or [raised |-> FALSE, value,
\* detected]; detected records what each detector returned and which failed.
detect_anomalies(col, column_name, fout) ==
    LET data == dropna(col)
    IN
    IF TooFewForAnomalies(data)
    THEN [raised |-> TRUE,
          error |-> "Not enough data points for anomaly detection",
          detected |-> NoDetected]
    ELSE IF data.kind = "text"
    THEN \* data.mean() of an object column of strings: TypeError, line 91
         [raised |-> TRUE, error |-> "could not convert string to float",
          detected |-> [ran |-> TRUE, failed |-> {"z-score"}]]
    ELSE
    LET st == detect_statistical_anomalies(data)
        iq == detect_iqr_anomalies(data)
        fo == detect_isolation_forest_anomalies(data, fout)
        all_indices == Range(st.indices) \cup Range(iq.indices) \cup Range(fo.indices)
        order == SortedSeq(all_indices)
        det == [ran |-> TRUE, statistical |-> st, iqr |-> iq,
                isolation_forest |-> fo,
                failed |-> IF fout.raises THEN {"isolation_forest"} ELSE {}]
    IN
    IF \E idx \in all_indices : idx >= Len(data.values)
    THEN \* data.iloc[idx] out of bounds: IndexError, line 49
         [raised |-> TRUE,
          error |-> "single positional indexer is out-of-bounds",
          detected |-> det]
    ELSE
    LET anomalies_list ==
            SortByConfidence(AsSeq([k \in 1 .. Len(order) |->
                                AnomalyRecord(data, order[k], st, iq, fo)]))
    IN  [raised |-> FALSE,
         detected |-> det,
         value |->
           [column |-> column_name,
            total_data_points |-> Len(data.values),
            total_anomalies |-> Len(anomalies_list),
            \* (len(anomalies_list) / len(data)) * 100, as a fraction
            anomaly_percentage |-> <<100 * Len(anomalies_list), Len(data.values)>>,
            anomalies |-> Head50(anomalies_list),
            methods |-> [statistical |-> st.summary,
                         iqr |-> iq.summary,
                         isolation_forest |-> fo.summary]]]

---------------------------------------------------------------------------
(* trend_detector.py                                                       *)

\* sum of i * y[i] over the positions i = 0 .. n-1
SumIdxVal(values) ==
    SumFn([k \in DOMAIN values |-> (k - 1) * values[k]], 1, Len(values))

\* LinearRegression().fit(arange(n), y).coef_[0] as the fraction <<num, den>>,
\* den > 0: (n sum(i y) - sum(i) sum(y)) / (n sum(i^2) - sum(i)^2).
Slope(values) ==
    LET n  == Len(values)
        si == (n * (n - 1)) \div 2
        sii == ((n - 1) * n * (2 * n - 1)) \div 6
    IN  <<n * SumIdxVal(values) - si * SumSeq(values), n * sii - si * si>>

\* Lines 48-54: stable if |slope| < 0.001.
Direction(slope) ==
    IF 1000 * Abs(slope[1]) < slope[2] THEN "stable"
    ELSE IF slope[1] > 0 THEN "increasing"
    ELSE "decreasing"

\* The guard with the bound one too low: a series of two points passes.
TooFewForTrendOffByOne(data) == Len(data.values) < MinTrendPoints - 1

\* len(data) < 3, line 30
TooFewForTrend(data) == Len(data.values) < MinTrendPoints

\* sum over the positions x = 0 .. n-1 of (2 x - (n - 1)) * y[x]: twice the
\* sum of (x - mean(x)) * (y - mean(y)).
CenteredXY2(values) ==
    LET n == Len(values)
    IN  SumFn([k \in DOMAIN values |-> (2 * (k - 1) - (n - 1)) * values[k]],
              1, n)

\* model.score(X, y), the coefficient of determination 1 - SSres / SStot, as
\* the fraction <<num, den>>.  With A = CenteredXY2, V = VarNum and the x
\* of arange(n):  Sxy = A / 2, Sxx = n (n^2 - 1) / 12, Syy = V / n, so
\* 1 - SSres / SStot = Sxy^2 / (Sxx Syy) = 3 A^2 / ((n^2 - 1) V).
\* For a constant y both sums of squares are 0 and r2_score returns 1.0.
RSquared(values) ==
    LET n == Len(values)
        A == CenteredXY2(values)
        V == VarNum(values)
    IN  IF V = 0 THEN <<1, 1>>
        ELSE <<3 * A * A, (n * n - 1) * V>>

\* n (n^2 - 1) * sum(y - y_pred), with y_pred = intercept + slope * x,
\* slope = 6 A / (n (n^2 - 1)) and intercept = mean(y) - slope * mean(x).
ResidualSum(values) ==
    LET n  == Len(values)
        A  == CenteredXY2(values)
        P  == n * (n * n - 1)
        Sy == SumSeq(values)
        Sx == (n * (n - 1)) \div 2
        \* P * intercept = (n^2 - 1) Sy - 3 A (n - 1)
        Pintercept == (n * n - 1) * Sy - 3 * A * (n - 1)
    IN  P * Sy - (n * Pintercept + 6 * A * Sx)

\* 100 * the square of the two-sided 5% critical value of Student's t with
\* dof degrees of freedom (scipy.stats.t.ppf(0.975, dof)); for a range of
\* dof, the value of its smallest member.
TCrit05Sq100(dof) ==
    CASE dof = 1 -> 16145
      [] dof = 2 -> 1851
      [] dof = 3 -> 1013
      [] dof = 4 -> 771
      [] dof = 5 -> 661
      [] dof = 6 -> 599
      [] dof = 7 -> 559
      [] dof = 8 -> 532
      [] dof = 9 -> 512
      [] dof = 10 -> 496
      [] dof \in 11 .. 15 -> 484
      [] dof \in 16 .. 30 -> 449
      [] dof \in 31 .. 120 -> 416
      [] OTHER -> 392

\* Lines 63-65: _, p_value = stats.ttest_1samp(residuals, 0);
\* is_significant = p_value < 0.05, with t = mean / (std / sqrt(n)) and
\* n - 1 degrees of freedom.  When the mean of the residuals is 0, t is 0
\* (p = 1) or, the residuals being all 0, 0 / 0 = nan (p = nan): not below
\* 0.05 in either case.  Otherwise, with rs = ResidualSum, P = n (n^2 - 1),
\* V = VarNum and N / D = r_squared,
\*   t^2 = (n - 1) rs^2 D / (V (D - N) P^2 - rs^2 D),
\* infinite (p = 0) when the residuals are all equal.
ResidualsSignificant(values) ==
    LET n  == Len(values)
        rs == ResidualSum(values)
        P  == n * (n * n - 1)
        r2 == RSquared(values)
        den == VarNum(values) * (r2[2] - r2[1]) * P * P - rs * rs * r2[2]
    IN  IF rs = 0 THEN FALSE
        ELSE \/ den = 0
             \/ 100 * (n - 1) * rs * rs * r2[2] > TCrit05Sq100(n - 1) * den

\* The sum of the window data[from : from + 5] (from is 0-based).
WindowSum(values, from) ==
    SumFn([k \in 1 .. ChangeWindow |-> values[from + k]], 1, ChangeWindow)

\* 5 * the sum of the squared deviations of that window from its mean.
WindowQ(values, from) ==
    ChangeWindow
      * SumFn([k \in 1 .. ChangeWindow |-> values[from + k] * values[from + k]],
              1, ChangeWindow)
    - WindowSum(values, from) * WindowSum(values, from)

\* stats.ttest_ind(before, after) at position i (0-based), before =
\* data[i - 5 : i], after = data[i : i + 5], equal variances,
\* 8 degrees of freedom: t^2 = 4 d^2 / q with d the difference of the sums
\* and q the sum of the two WindowQ, kept as [d2 |-> d^2, q |-> q].
TTestInd(values, i) ==
    LET d == WindowSum(values, i - ChangeWindow) - WindowSum(values, i)
    IN  [d2 |-> d * d,
         q  |-> WindowQ(values, i - ChangeWindow) + WindowQ(values, i)]

\* p_value < 0.01: |t| above the two-sided 1% critical value for 8 degrees
\* of freedom, 3.35539 (its square 11.2586); with q = 0, t is +-inf (p = 0)
\* when the means differ and nan when they do not.
ChangeSignificant(t) == 4000 * t.d2 > 11259 * t.q

\* significance = 1 - p_value of a is greater than that of b.
MoreSignificant(a, b) == a.d2 * b.q > b.d2 * a.q

\* The changepoints in the order of the loop of line 137.
ChangepointsFound(values) ==
    LET n == Len(values)
        found == SelectSeq(AsSeq([k \in 1 .. n - 2 * ChangeWindow |->
                                     k + ChangeWindow - 1]),
                           LAMBDA i : ChangeSignificant(TTestInd(values, i)))
    IN  AsSeq([k \in DOMAIN found |->
                 [index |-> found[k],
                  before_sum |-> WindowSum(values, found[k] - ChangeWindow),
                  after_sum |-> WindowSum(values, found[k]),
                  significance |-> TTestInd(values, found[k])]])

\* changepoints[:5]
Head5(s) == SubSeq(s, 1, IF Len(s) < MaxChangepoints THEN Len(s) ELSE MaxChangepoints)

\* _detect_changepoints
detect_changepoints(values) ==
    IF Len(values) < MinChangeData THEN <<>>
    ELSE Head5(ChangepointsFound(values))

\* detect_trend: the guard, the regression (slope, r_squared, direction),
\* the significance test, the changepoints and the fields copied from the
\* data.  The seasonality descriptor (an FFT of the residuals), p_value,
\* the min / max / mean / std and the predictions are left out of the
\* document.
detect_trend(col, column_name) ==
    LET data == dropna(col)
        y == data.values
    IN
    IF TooFewForTrend(data)
    THEN [raised |-> TRUE, error |-> "Not enough data points for trend analysis"]
    ELSE IF data.kind = "text"
    THEN \* model.fit(X, y) on strings: ValueError, line 39
         [raised |-> TRUE, error |-> "could not convert string to float"]
    ELSE [raised |-> FALSE,
          value |->
            [column |-> column_name,
             direction |-> Direction(Slope(y)),
             slope |-> Slope(y),
             r_squared |-> RSquared(y),
             confidence |-> RSquared(y),
             \* ((y[-1] - y[0]) / abs(y[0])) * 100, or 0 when y[0] == 0
             percentage_change |->
                 IF y[1] # 0 THEN <<100 * (y[Len(y)] - y[1]), Abs(y[1])>>
                 ELSE <<0, 1>>,
             is_significant |-> ResidualsSignificant(y),
             data_points |-> Len(y),
             start_value |-> y[1],
             end_value |-> y[Len(y)],
             changepoints |-> detect_changepoints(y)]]

---------------------------------------------------------------------------
(* correlation_analyzer.py                                                 *)

\* n sum(x y) - sum(x) sum(y): the covariance of x and y times n^2.
CovNum(x, y) ==
    Len(x) * SumFn([k \in DOMAIN x |-> x[k] * y[k]], 1, Len(x))
    - SumSeq(x) * SumSeq(y)

\* scipy pearsonr(x, y)[0] = cov / sqrt(var), kept as the pair [cov, var]
\* with var = VarNum(x) * VarNum(y); it is NaN when var = 0 (constant input).
pearsonr(x, y) == [cov |-> CovNum(x, y), var |-> VarNum(x) * VarNum(y)]

\* scipy rankdata, method 'average', doubled: 2 * #smaller + #equal + 1.
Rank2(x) ==
    AsSeq([k \in DOMAIN x |->
              2 * Cardinality({j \in DOMAIN x : x[j] < x[k]})
              + Cardinality({j \in DOMAIN x : x[j] = x[k]}) + 1])

\* scipy spearmanr(x, y)[0]: Pearson's r of the ranks.
spearmanr(x, y) == pearsonr(Rank2(x), Rank2(y))

IsNaN(r) == r.var = 0

\* abs(r) >= t10 / 10; False when r is NaN.
AbsGE(r, t10) == ~IsNaN(r) /\ 100 * r.cov * r.cov >= t10 * t10 * r.var

\* abs(a) > abs(b), a and b not NaN.
AbsGt(a, b) == a.cov * a.cov * b.var > b.cov * b.cov * a.var

\* sklearn mutual_info_regression(x, y): its k-nearest-neighbour estimator
\* asks each sample for n_neighbors = 3 neighbours other than itself, and
\* NearestNeighbors.kneighbors raises ValueError unless n_neighbors <
\* n_samples.  The score itself is not modelled.
mutual_info_raises(x) == Len(x) <= MINeighbors

\* _get_strength
get_strength(r) ==
    IF AbsGE(r, 9) THEN "very strong"
    ELSE IF AbsGE(r, 7) THEN "strong"
    ELSE IF AbsGE(r, 5) THEN "moderate"
    ELSE IF AbsGE(r, 3) THEN "weak"
    ELSE "very weak"

\* df.select_dtypes(include = [np.number]).columns.tolist(): the positions
\* of the numeric columns, in column order.
NumericCols(cols) == SelectSeq(AsSeq([i \in DOMAIN cols |-> i]),
                               LAMBDA i : cols[i].kind = "numeric")

\* data1.index.intersection(data2.index), lines 41-45.
CommonIdx(c1, c2) ==
    SortedSeq({l \in Labels(c1) : l \notin c1.nulls /\ l \notin c2.nulls})

\* self.df.loc[common_idx, col].values
ValuesAt(col, idx) == AsSeq([k \in DOMAIN idx |-> col.cells[idx[k] + 1]])

\* len(common_idx) < 3: continue
TooFewCommon(idx) == Len(idx) < MinCommon

\* The condition of line 62.
Retain(p, sp, t10) == AbsGE(p, t10) \/ AbsGE(sp, t10)

\* The pairs (i, j), i < j, of numeric_cols in the order of the two loops.
PairOrder(numeric_cols) ==
    LET n == Len(numeric_cols)
        all == {<<i, j>> \in (1 .. n) \X (1 .. n) : i < j}
        before(a, b) == a[1] < b[1] \/ (a[1] = b[1] /\ a[2] < b[2])
    IN  AsSeq([k \in 1 .. Cardinality(all) |->
                 CHOOSE a \in all : Cardinality({b \in all : before(b, a)}) = k - 1])

\* What the loop body does with one pair: "skip" (too few common rows),
\* "raise" (mutual_info_regression), "drop" (below the threshold) or "keep",
\* with the record it appends.  The p-values, the mutual-information score
\* and the interpretation text are not modelled.
AnalyzePair(cols, a, b, t10) ==
    LET idx == CommonIdx(cols[a], cols[b])
        x == ValuesAt(cols[a], idx)
        y == ValuesAt(cols[b], idx)
        p == pearsonr(x, y)
        sp == spearmanr(x, y)
    IN  IF TooFewCommon(idx) THEN [what |-> "skip"]
        ELSE IF mutual_info_raises(x) THEN [what |-> "raise"]
        ELSE IF ~Retain(p, sp, t10) THEN [what |-> "drop"]
        ELSE [what |-> "keep",
              rec |-> [column1 |-> cols[a].name,
                       column2 |-> cols[b].name,
                       pearson_correlation |-> p,
                       spearman_correlation |-> sp,
                       correlation_type |->
                           IF ~IsNaN(p) /\ p.cov > 0 THEN "positive" ELSE "negative",
                       strength |-> get_strength(p)]]

\* a > b for two correlations that are not NaN, signs kept.
SignedGt(a, b) ==
    IF a.cov >= 0 /\ b.cov < 0 THEN TRUE
    ELSE IF a.cov < 0 /\ b.cov >= 0 THEN FALSE
    ELSE IF a.cov >= 0 THEN AbsGt(a, b)
    ELSE AbsGt(b, a)

\* The sort with abs() forgotten in its key.
SortBySignedPearson(s) ==
    SortDesc(s, [i, j \in DOMAIN s |->
                    SignedGt(s[i].pearson_correlation, s[j].pearson_correlation)])

\* correlations.sort(key = lambda x: abs(x['pearson_correlation']),
\*                   reverse = True)
SortByAbsPearson(s) ==
    SortDesc(s, [i, j \in DOMAIN s |->
                    AbsGt(s[i].pearson_correlation, s[j].pearson_correlation)])

\* correlations[:20]
Head20(s) == SubSeq(s, 1, IF Len(s) < TopCorrelations THEN Len(s) ELSE TopCorrelations)

\* len([c for c in correlations if c['strength'] in ['very strong', 'strong']])
CountStrong(s) ==
    Cardinality({k \in DOMAIN s : s[k].strength \in {"very strong", "strong"}})

\* The early return of lines 28-32.
FewColumnsResult ==
    [correlations |-> <<>>,
     message |-> "Need at least 2 numeric columns for correlation analysis"]

\* analyze_correlations on the columns cols with threshold t10 / 10.
analyze_correlations(cols, t10) ==
    LET numeric_cols == NumericCols(cols)
        order == PairOrder(numeric_cols)
        outcome == AsSeq([k \in DOMAIN order |->
                            AnalyzePair(cols, numeric_cols[order[k][1]],
                                        numeric_cols[order[k][2]], t10)])
        kept == SelectSeq(outcome, LAMBDA o : o.what = "keep")
        correlations == SortByAbsPearson(AsSeq([k \in DOMAIN kept |-> kept[k].rec]))
    IN  IF Len(numeric_cols) < 2
        THEN [raised |-> FALSE, value |-> FewColumnsResult, retained |-> <<>>]
        ELSE IF \E k \in DOMAIN outcome : outcome[k].what = "raise"
        THEN [raised |-> TRUE,
              error |-> "Expected n_neighbors < n_samples_fit",
              retained |-> <<>>]
        ELSE [raised |-> FALSE,
              retained |-> correlations,
              value |->
                [total_correlations |-> Len(correlations),
                 strong_correlations |-> CountStrong(correlations),
                 correlations |-> Head20(correlations),
                 numeric_columns |->
                     AsSeq([k \in DOMAIN numeric_cols |-> cols[numeric_cols[k]].name])]]

---------------------------------------------------------------------------
(* type_detector.py                                                        *)
(*                                                                         *)
(* A dataset column is [name, kind, nulls, cells].  A numeric column holds *)
(* integers of 0 .. 99 (read_csv gives it dtype int64, float64 when a cell *)
(* is missing or every cell is); a text column holds strings (dtype        *)
(* object) taken from the families below, whose members stand for the      *)
(* texts the detectors' regular expressions and pd.to_datetime tell apart. *)
(* A text column holds texts of at most one date-like family, so that      *)
(* to_datetime reads them with one format.  A column whose cells are all   *)
(* True or False is read with dtype bool (kind "bool", cells TRUE/FALSE,   *)
(* no missing cell); the profiler is given such columns.                   *)

EmailTexts == {"a@b.co", "c@d.org"}
UrlTexts == {"http://x.io", "http://y.io"}
PlainTexts == {"abc", "xyz"}
YesNoTexts == {"yes", "no"}
\* Dates without a time of day, not in ISO form.
DateTexts == {"Jan 15, 2024", "Feb 20, 2024"}
\* ISO dates: with the hyphens removed, eight digits.
IsoDateTexts == {"2024-01-15", "2024-02-20"}
\* Dates with a time of day.
DateTimeTexts == {"Jan 15, 2024 10:30", "Feb 20, 2024 11:45"}
\* Times of day; to_datetime reads them as a time on some day.
TimeTexts == {"10:30", "11:45"}

\* Every cell of the column is missing.
AllNull(col) == Labels(col) \subseteq col.nulls

\* str(col_data.dtype) of a column read by read_csv: a column without any
\* value is float64 whatever it was meant to hold.
DType(col) ==
    IF AllNull(col) THEN "float64"
    ELSE IF col.kind = "text" THEN "object"
    ELSE IF col.kind = "bool" THEN "bool"
    ELSE IF col.nulls \cap Labels(col) = {} THEN "int64"
    ELSE "float64"

\* pd.api.types.is_numeric_dtype(self.df[column])
is_numeric_dtype(col) == DType(col) # "object"

\* The texts that match each pattern of the detectors, after the
\* replacements the detector makes (the phone detector removes blanks,
\* hyphens and parentheses, which turns an ISO date into eight digits, a
\* match of its international pattern
\*   ^\+?\d{1,3}[-.\s]?\(?\d{1,4}\)?[-.\s]?\d{1,4}[-.\s]?\d{1,9}$ ).
\* The string of a number of 0 .. 99 ("7", "7.0") matches none of them.
PatternTexts(pattern) ==
    CASE pattern = "email" -> EmailTexts
      [] pattern = "url" -> UrlTexts
      [] pattern = "phone_us" -> {}
      [] pattern = "phone_intl" -> IsoDateTexts
      [] pattern = "ipv4" -> {}
      [] pattern = "time" -> TimeTexts
      [] pattern = "uuid" -> {}
      [] pattern = "us_zip" -> {}
      [] pattern = "credit_card" -> {}
      [] pattern = "currency_symbol" -> {}
      [] pattern = "percent_symbol" -> {}

\* sample_str.str.match(pattern).sum(): the number of cells of the sample
\* that match.
MatchCount(col, smp, pattern) ==
    IF col.kind = "numeric" THEN 0
    ELSE Cardinality({k \in DOMAIN smp : smp[k] \in PatternTexts(pattern)})

\* pd.to_datetime(sample, errors = 'coerce').notna().sum().  A number is
\* read as nanoseconds since 1970-01-01 and is a valid time stamp; a bool
\* is not read (NaT, or a TypeError the caller catches).
ParsedCount(col, smp) ==
    IF col.kind = "numeric" THEN Len(smp)
    ELSE IF col.kind = "bool" THEN 0
    ELSE Cardinality({k \in DOMAIN smp :
            smp[k] \in DateTexts \cup IsoDateTexts \cup DateTimeTexts \cup TimeTexts})

\* (parsed.dt.hour != 0).any() or (parsed.dt.minute != 0).any().  The hour
\* of an unparsed cell (NaT) is NaN, and NaN != 0 is True.  The numbers of
\* 0 .. 99 are less than a minute after midnight.
HasTime(col, smp) ==
    /\ col.kind = "text"
    /\ \E k \in DOMAIN smp :
          smp[k] \notin DateTexts \cup IsoDateTexts

\* The name tests of the detectors: keyword in column.lower().
IdNames == {"user_id"}
CurrencyNames == {"amount"}
PercentNames == {"rate"}
ZipNames == {"zip"}
LatNames == {"lat"}
LonNames == {"lon"}
ColumnNames == {"user_id", "amount", "rate", "zip", "lat", "lon", "notes"}

\* The metadata of a detector: its confidence as a fraction and the names
\* of its keys.  NoMeta is the empty dict.
Meta(conf, keys) == [confidence |-> conf, keys |-> keys]
NoMeta == Meta(<<0, 1>>, {})
NoMatch == [is_type |-> FALSE, metadata |-> NoMeta]
Match(meta) == [is_type |-> TRUE, metadata |-> meta]

\* The non-null values of a numeric column in ascending order.
SortedValues(values) == AsSeq([k \in DOMAIN values |-> Kth(values, k - 1)])

\* df[column].nunique(): the number of distinct non-null values.
nunique(col) == Cardinality(Range(dropna(col).values))

\* _is_id_column
is_id_column(col, smp) ==
    LET live == dropna(col).values
        sv == SortedValues(live)
        ndiffs == Len(live) - 1
        ones == Cardinality({k \in 1 .. ndiffs : sv[k + 1] - sv[k] = 1})
    IN  IF col.name \in IdNames /\ 100 * nunique(col) > 95 * Len(live)
        THEN Match(Meta(<<95, 100>>, {"confidence", "reason"}))
        ELSE IF is_numeric_dtype(col) /\ ndiffs > 0 /\ 10 * ones > 8 * ndiffs
        THEN Match(Meta(<<90, 100>>, {"confidence", "reason"}))
        ELSE NoMatch

\* A detector that matches one pattern against the sample and reports a
\* match when matches / len(sample) > t10 / 10, with the ratio as its
\* confidence: the email, url, ip, time, uuid and credit-card detectors,
\* and each half of the phone detector.
RatioDetector(col, smp, pattern, t10, keys) ==
    LET matches == MatchCount(col, smp, pattern)
    IN  IF 10 * matches > t10 * Len(smp)
        THEN Match(Meta(<<matches, Len(smp)>>, keys))
        ELSE NoMatch

\* _is_email_column
is_email_column(col, smp) ==
    RatioDetector(col, smp, "email", 8, {"confidence", "pattern"})

\* _is_url_column
is_url_column(col, smp) ==
    RatioDetector(col, smp, "url", 8, {"confidence", "pattern"})

\* _is_phone_column: the US pattern, then the international one, each
\* against 0.7.
is_phone_column(col, smp) ==
    LET us == RatioDetector(col, smp, "phone_us", 7, {"confidence", "pattern"})
    IN  IF us.is_type THEN us
        ELSE RatioDetector(col, smp, "phone_intl", 7, {"confidence", "pattern"})

\* _is_ip_address_column
is_ip_address_column(col, smp) ==
    RatioDetector(col, smp, "ipv4", 8, {"confidence", "pattern"})

\* _is_currency_column.  is_numeric_after_clean: the cleaned string with
\* its first '.' removed is all digits, which holds of the string of every
\* number of 0 .. 99 and of no text of the families.
is_currency_column(col, smp) ==
    LET has_currency_name == col.name \in CurrencyNames
        has_currency_symbol ==
            10 * MatchCount(col, smp, "currency_symbol") > 3 * Len(smp)
        digits == IF col.kind = "numeric" THEN Len(smp) ELSE 0
        is_numeric_after_clean == 10 * digits > 8 * Len(smp)
    IN  IF (has_currency_name \/ has_currency_symbol) /\ is_numeric_after_clean
        THEN Match(Meta(<<85, 100>>, {"confidence", "has_symbol"}))
        ELSE NoMatch

\* _is_percentage_column.  in_range: the share, among the cells that
\* pd.to_numeric reads, of those within 0 .. 100; with no such cell the
\* division gives nan and the comparison False.
is_percentage_column(col, smp) ==
    LET has_percent_symbol ==
            10 * MatchCount(col, smp, "percent_symbol") > 3 * Len(smp)
        in_range == col.kind = "numeric"
    IN  IF col.name \in PercentNames /\ (has_percent_symbol \/ in_range)
        THEN Match(Meta(<<90, 100>>, {"confidence", "has_symbol"}))
        ELSE NoMatch

\* _is_date_column
is_date_column(col, smp) ==
    LET valid_dates == ParsedCount(col, smp)
    IN  IF 10 * valid_dates > 8 * Len(smp) /\ ~HasTime(col, smp)
        THEN Match(Meta(<<valid_dates, Len(smp)>>,
                        {"confidence", "format", "has_time"}))
        ELSE NoMatch

\* _is_datetime_column
is_datetime_column(col, smp) ==
    LET valid_dates == ParsedCount(col, smp)
    IN  IF 10 * valid_dates > 8 * Len(smp) /\ HasTime(col, smp)
        THEN Match(Meta(<<valid_dates, Len(smp)>>,
                        {"confidence", "has_time", "has_timezone"}))
        ELSE NoMatch

\* _is_time_column
is_time_column(col, smp) ==
    RatioDetector(col, smp, "time", 8, {"confidence", "pattern"})

\* _is_boolean_column: the lowercased strings of the sample are within one
\* of the pairs (plus 'nan').  Of the model's cells, "yes" / "no" and the
\* int64 numbers 0 / 1 ("0", "1"; a float64 column gives "0.0", "1.0").
is_boolean_column(col, smp) ==
    IF \/ col.kind = "text" /\ Range(smp) \subseteq YesNoTexts
       \/ DType(col) = "int64" /\ Range(smp) \subseteq {0, 1}
    THEN Match(Meta(<<95, 100>>, {"confidence", "values"}))
    ELSE NoMatch

\* _is_uuid_column
is_uuid_column(col, smp) ==
    RatioDetector(col, smp, "uuid", 8, {"confidence", "pattern"})

\* _is_zip_code_column
is_zip_code_column(col, smp) ==
    IF col.name \in ZipNames
    THEN RatioDetector(col, smp, "us_zip", 7, {"confidence", "pattern"})
    ELSE NoMatch

\* _is_credit_card_column
is_credit_card_column(col, smp) ==
    RatioDetector(col, smp, "credit_card", 8,
                  {"confidence", "pattern", "warning"})

\* The share of the sample within -bound .. bound is above 0.95.
InRange(smp, bound) ==
    100 * Cardinality({k \in DOMAIN smp : smp[k] >= -bound /\ smp[k] <= bound})
        > 95 * Len(smp)

\* _is_latitude_column
is_latitude_column(col, smp) ==
    IF col.name \in LatNames /\ is_numeric_dtype(col) /\ InRange(smp, 90)
    THEN Match(Meta(<<90, 100>>, {"confidence", "range"}))
    ELSE NoMatch

\* _is_longitude_column
is_longitude_column(col, smp) ==
    IF col.name \in LonNames /\ is_numeric_dtype(col) /\ InRange(smp, 180)
    THEN Match(Meta(<<90, 100>>, {"confidence", "range"}))
    ELSE NoMatch

\* _is_numeric_column
is_numeric_column(col, smp) ==
    IF is_numeric_dtype(col)
    THEN IF 2 * Cardinality(Range(smp)) > Len(smp)
         THEN Match(Meta(<<95, 100>>, {"confidence", "subtype"}))
         ELSE Match(Meta(<<90, 100>>, {"confidence", "subtype"}))
    ELSE NoMatch

\* _is_categorical_column: confidence = 1.0 - unique_ratio
is_categorical_column(col, smp) ==
    LET u == Cardinality(Range(smp))
    IN  IF 2 * u < Len(smp)
        THEN Match(Meta(<<Len(smp) - u, Len(smp)>>,
                        {"confidence", "subtype", "cardinality"}))
        ELSE NoMatch

\* The names of type_detectors, lines 51-71, in order.
type_detectors ==
    <<"id", "email", "url", "phone", "ip_address", "currency", "percentage",
      "date", "datetime", "time", "boolean", "uuid", "zip_code",
      "credit_card", "latitude", "longitude", "numeric", "categorical",
      "text">>

\* detector_func(column, sample) of the entry named type_name.
Detector(type_name, col, smp) ==
    CASE type_name = "id" -> is_id_column(col, smp)
      [] type_name = "email" -> is_email_column(col, smp)
      [] type_name = "url" -> is_url_column(col, smp)
      [] type_name = "phone" -> is_phone_column(col, smp)
      [] type_name = "ip_address" -> is_ip_address_column(col, smp)
      [] type_name = "currency" -> is_currency_column(col, smp)
      [] type_name = "percentage" -> is_percentage_column(col, smp)
      [] type_name = "date" -> is_date_column(col, smp)
      [] type_name = "datetime" -> is_datetime_column(col, smp)
      [] type_name = "time" -> is_time_column(col, smp)
      [] type_name = "boolean" -> is_boolean_column(col, smp)
      [] type_name = "uuid" -> is_uuid_column(col, smp)
      [] type_name = "zip_code" -> is_zip_code_column(col, smp)
      [] type_name = "credit_card" -> is_credit_card_column(col, smp)
      [] type_name = "latitude" -> is_latitude_column(col, smp)
      [] type_name = "longitude" -> is_longitude_column(col, smp)
      [] type_name = "numeric" -> is_numeric_column(col, smp)
      [] type_name = "categorical" -> is_categorical_column(col, smp)
      [] type_name = "text" -> Match(NoMeta)

\* numpy's generator, as far as the model needs it: a generator in state g
\* asked for n of N positions gives the n positions that follow g
\* cyclically (all of them when n = N).
Draw(g, N, n) == {((g + j) % N) + 1 : j \in 0 .. n - 1}

\* The cells of values at the positions of the set ps, in position order.
TakeRows(values, ps) ==
    LET idx == SortedSeq(ps)
    IN  AsSeq([k \in 1 .. Len(idx) |-> values[idx[k]]])

\* non_null_data.sample(n = n, random_state = None): the rows are drawn from
\* numpy's global generator, which moves on.
sample_unseeded(values, n, seed, np) ==
    [cells |-> TakeRows(values, Draw(np, Len(values), n)), np_state |-> np + 1]

\* non_null_data.sample(n = n, random_state = seed): the rows are drawn from
\* a new generator made from the seed; the global generator is not used.
sample(values, n, seed, np) ==
    [cells |-> TakeRows(values, Draw(seed, Len(values), n)), np_state |-> np]

\* _get_numeric_stats: {} without a number, else min, max, ... (the other
\* fields are left out).
get_numeric_stats(col) ==
    LET live == dropna(col).values
    IN  IF col.kind # "numeric" \/ Len(live) = 0 THEN [empty |-> TRUE]
        ELSE [empty |-> FALSE,
              min |-> Kth(live, 0), max |-> Kth(live, Len(live) - 1)]

\* _get_date_range: {} without a date, else the range (here the number of
\* cells that to_datetime reads).
get_date_range(col) ==
    LET live == dropna(col).values
        dates == ParsedCount(col, live)
    IN  IF dates = 0 THEN [empty |-> TRUE]
        ELSE [empty |-> FALSE, dates |-> dates]

\* _get_top_categories: value and count of the values (the model's columns
\* have fewer than 10 distinct values).
get_top_categories(col) ==
    LET live == dropna(col).values
    IN  {[value |-> v, count |-> Cardinality({k \in DOMAIN live : live[k] = v})] :
            v \in Range(live)}

\* _create_type_result.  Percentages are fractions <<numerator,
\* denominator>> of 100; sample_values is left out.
create_type_result(detected_type, col, metadata) ==
    LET rows == Len(col.cells)
        nulls == Cardinality(col.nulls \cap Labels(col))
        result == [detected_type |-> detected_type,
                   original_dtype |-> DType(col),
                   null_count |-> nulls,
                   null_percentage |-> <<100 * nulls, rows>>,
                   unique_count |-> nunique(col),
                   unique_percentage |-> <<100 * nunique(col), rows>>,
                   metadata |-> metadata]
    IN  IF detected_type \in {"numeric", "currency", "percentage",
                              "latitude", "longitude"}
        THEN result @@ [statistics |-> get_numeric_stats(col)]
        ELSE IF detected_type \in {"date", "datetime"}
        THEN result @@ [date_range |-> get_date_range(col)]
        ELSE IF detected_type = "categorical"
        THEN result @@ [categories |-> get_top_categories(col)]
        ELSE result

\* The loop of detect_column_type, lines 73-76, taking the last detector
\* that matches.
FirstMatchFromEnd(col, smp) ==
    LET hits == {i \in DOMAIN type_detectors :
                    Detector(type_detectors[i], col, smp).is_type}
    IN  IF hits = {} THEN 0
        ELSE CHOOSE i \in hits : \A j \in hits : j <= i

\* The loop of detect_column_type, lines 73-76: the position in
\* type_detectors of the first detector that matches, 0 when none does.
FirstMatch(col, smp) ==
    LET hits == {i \in DOMAIN type_detectors :
                    Detector(type_detectors[i], col, smp).is_type}
    IN  IF hits = {} THEN 0
        ELSE CHOOSE i \in hits : \A j \in hits : i <= j

\* detect_column_type(column) with numpy's global generator in state np:
\* the result and the state the generator is left in.
detect_column_type(col, np) ==
    LET non_null_data == dropna(col).values
        sample_size == IF Len(non_null_data) < SampleCap
                       THEN Len(non_null_data) ELSE SampleCap
        drawn == sample(non_null_data, sample_size, SampleSeed, np)
        first == FirstMatch(col, drawn.cells)
    IN  IF Len(non_null_data) = 0
        THEN [result |-> create_type_result("empty", col, NoMeta),
              np_state |-> np]
        ELSE IF first = 0
        THEN [result |-> create_type_result("unknown", col, NoMeta),
              np_state |-> drawn.np_state]
        ELSE [result |-> create_type_result(type_detectors[first], col,
                            Detector(type_detectors[first], col, drawn.cells).metadata),
              np_state |-> drawn.np_state]

\* The results of detect_column_type on the columns cols[from ..], the
\* generator being in state np before the first: the loop of
\* detect_all_types.
RECURSIVE DetectFrom(_, _, _)
DetectFrom(cols, from, np) ==
    IF from > Len(cols) THEN <<>>
    ELSE LET r == detect_column_type(cols[from], np)
         IN  <<[name |-> cols[from].name, result |-> r.result]>>
                \o DetectFrom(cols, from + 1, r.np_state)

\* _generate_summary were a type counted once however many columns have it.
generate_summary_of_set(results) ==
    LET types == {results[k].result.detected_type : k \in DOMAIN results}
    IN  [type_distribution |->
            [t \in types |->
                Cardinality({results[k].result.detected_type :
                                k \in DOMAIN results} \cap {t})],
         total_columns |-> Len(results),
         has_dates |-> types \cap {"date", "datetime"} # {},
         has_geo |-> types \cap {"latitude", "longitude"} # {},
         has_sensitive |->
            \E k \in DOMAIN results :
                "warning" \in results[k].result.metadata.keys]

\* _generate_summary
generate_summary(results) ==
    LET types == {results[k].result.detected_type : k \in DOMAIN results}
    IN  [type_distribution |->
            [t \in types |->
                Cardinality({k \in DOMAIN results :
                                results[k].result.detected_type = t})],
         total_columns |-> Len(results),
         has_dates |-> types \cap {"date", "datetime"} # {},
         has_geo |-> types \cap {"latitude", "longitude"} # {},
         has_sensitive |->
            \E k \in DOMAIN results :
                "warning" \in results[k].result.metadata.keys]

\* detect_all_types: 'columns' is the dict of the results, here the
\* sequence of [name, result] in column order.
detect_all_types(cols, dataset_id, np) ==
    LET results == DetectFrom(cols, 1, np)
    IN  [dataset_id |-> dataset_id,
         total_columns |-> Len(cols),
         columns |-> results,
         summary |-> generate_summary(results)]

\* json.dumps(result) raises TypeError on a value of numpy's bool_ type:
\* 'has_symbol' of the currency and percentage detectors is the outcome of
\* a comparison of numpy numbers.
JsonSerializable(doc) ==
    \A k \in DOMAIN doc.columns :
        "has_symbol" \notin doc.columns[k].result.metadata.keys

---------------------------------------------------------------------------
(* data_profiler.py                                                        *)

\* DataProfiler._is_date_column: more than 80% of the first 100 values are
\* read by pd.to_datetime.
profiler_is_date_column(col) ==
    LET live == dropna(col).values
        head == SubSeq(live, 1, IF Len(live) < ProfilerHead THEN Len(live)
                                ELSE ProfilerHead)
    IN  10 * ParsedCount(col, head) > 8 * Len(head)

\* DataProfiler._is_boolean_column, which is asked of text columns only: at
\* most two distinct values, all among 'true', 'false', 'yes', 'no', '1',
\* '0', 't', 'f', 'y', 'n'.
profiler_is_boolean_column(col) ==
    LET unique_values == Range(dropna(col).values)
    IN  Cardinality(unique_values) <= 2 /\ unique_values \subseteq YesNoTexts

\* DataProfiler._is_id_column
profiler_is_id_column(col) ==
    /\ col.name \in IdNames
    /\ 100 * nunique(col) > 95 * Len(dropna(col).values)

\* The body of the loop of detect_column_types: the type of one column.
profiler_column_type(col) ==
    LET n == Len(dropna(col).values)
        u == nunique(col)
    IN  IF n = 0 THEN "empty"
        ELSE IF profiler_is_date_column(col) THEN "date"
        ELSE IF is_numeric_dtype(col)
        THEN IF 100 * u < 5 * n /\ u < 20 THEN "categorical"
             ELSE IF profiler_is_id_column(col) THEN "id"
             ELSE "numeric"
        ELSE IF profiler_is_boolean_column(col) THEN "boolean"
        ELSE IF 2 * u < n THEN "categorical"
        ELSE "text"

\* detect_column_types: the dict column -> type, as a sequence in column
\* order.
detect_column_types(cols) ==
    AsSeq([k \in DOMAIN cols |->
              [name |-> cols[k].name, type |-> profiler_column_type(cols[k])]])

\* The null_count and null_percentage fields of an analysis block.
NullFields(col) ==
    LET nulls == Cardinality(col.nulls \cap Labels(col))
    IN  [null_count |-> nulls, null_percentage |-> <<100 * nulls, Len(col.cells)>>]

\* data.quantile(0.25) of analyze_numeric_columns raises on a column of
\* dtype bool: numpy's percentile interpolates by subtraction, which bool
\* arrays do not support (TypeError).
quantile_raises(col) == DType(col) = "bool"

\* The block analyze_numeric_columns gives a 'numeric' column (of its
\* statistics the extremes and the counts are kept); the except clause
\* turns a failure into {'error': str(e)}.
numeric_block(col) ==
    LET data == dropna(col).values
    IN  IF quantile_raises(col)
        THEN [error |-> "numpy boolean subtract is not supported"]
        ELSE [min |-> Kth(data, 0), max |-> Kth(data, Len(data) - 1),
              unique_count |-> nunique(col),
              zeros_count |-> Cardinality({k \in DOMAIN data : data[k] = 0}),
              positive_count |-> Cardinality({k \in DOMAIN data : data[k] > 0})]
             @@ NullFields(col)

\* The block analyze_categorical_columns gives a 'categorical' column.
categorical_block(col) ==
    LET data == dropna(col).values
        count(v) == Cardinality({k \in DOMAIN data : data[k] = v})
        top == CHOOSE v \in Range(data) : \A w \in Range(data) : count(w) <= count(v)
    IN  [unique_count |-> nunique(col), most_frequent_count |-> count(top)]
        @@ NullFields(col)

\* The block analyze_date_columns gives a 'date' column: the nulls are the
\* cells pd.to_datetime does not read, missing ones included.
date_block(col) ==
    LET data == dropna(col).values
        valid == ParsedCount(col, data)
        rows == Len(col.cells)
    IN  [null_count |-> rows - valid,
         null_percentage |-> <<100 * (rows - valid), rows>>,
         valid_dates |-> valid]

\* The blocks of the columns of the given type, as [name, block] in column
\* order, had the loops no try/except: the first failure ends the analysis
\* and nothing of it is kept.
AnalysisAborting(cols, column_types, type) ==
    LET picked == SelectSeq(AsSeq([k \in DOMAIN cols |-> k]),
                            LAMBDA k : column_types[k].type = type)
    IN  IF type = "numeric" /\ \E i \in DOMAIN picked : quantile_raises(cols[picked[i]])
        THEN <<>>
        ELSE AsSeq([i \in DOMAIN picked |->
                  [name |-> cols[picked[i]].name,
                   block |-> CASE type = "numeric" -> numeric_block(cols[picked[i]])
                               [] type = "categorical" -> categorical_block(cols[picked[i]])
                               [] type = "date" -> date_block(cols[picked[i]])]])

\* One of the three analyses: the blocks of the columns of the given type,
\* as [name, block] in column order.
Analysis(cols, column_types, type) ==
    LET picked == SelectSeq(AsSeq([k \in DOMAIN cols |-> k]),
                            LAMBDA k : column_types[k].type = type)
    IN  AsSeq([i \in DOMAIN picked |->
                  [name |-> cols[picked[i]].name,
                   block |-> CASE type = "numeric" -> numeric_block(cols[picked[i]])
                               [] type = "categorical" -> categorical_block(cols[picked[i]])
                               [] type = "date" -> date_block(cols[picked[i]])]])

\* calculate_data_quality_score: the counts, and the scores as fractions of
\* 100 (round(..., 2) left out).
calculate_data_quality_score(cols) ==
    LET rows == Len(cols[1].cells)
        total_cells == rows * Len(cols)
        null_cells == SumFn([k \in DOMAIN cols |->
                                Cardinality(cols[k].nulls \cap Labels(cols[k]))],
                            1, Len(cols))
        same(a, b) == \A k \in DOMAIN cols :
                         \/ a \in cols[k].nulls /\ b \in cols[k].nulls
                         \/ /\ a \notin cols[k].nulls /\ b \notin cols[k].nulls
                            /\ cols[k].cells[a + 1] = cols[k].cells[b + 1]
        duplicate_rows == Cardinality({l \in 0 .. rows - 1 :
                                         \E e \in 0 .. l - 1 : same(e, l)})
    IN  [completeness |-> <<100 * (total_cells - null_cells), total_cells>>,
         uniqueness |-> <<100 * (rows - duplicate_rows), rows>>,
         overall_score |->
            <<60 * (total_cells - null_cells) * rows
                + 40 * (rows - duplicate_rows) * total_cells,
              total_cells * rows>>,
         total_cells |-> total_cells,
         null_cells |-> null_cells,
         duplicate_rows |-> duplicate_rows]

\* generate_profile (total_size_bytes left out).
generate_profile(cols, dataset_id) ==
    LET column_types == detect_column_types(cols)
        types == {column_types[k].type : k \in DOMAIN column_types}
    IN  [dataset_id |-> dataset_id,
         row_count |-> Len(cols[1].cells),
         column_count |-> Len(cols),
         column_types |-> column_types,
         type_distribution |->
            [t \in types |->
                Cardinality({k \in DOMAIN column_types : column_types[k].type = t})],
         numeric_analysis |-> Analysis(cols, column_types, "numeric"),
         categorical_analysis |-> Analysis(cols, column_types, "categorical"),
         date_analysis |-> Analysis(cols, column_types, "date"),
         data_quality |-> calculate_data_quality_score(cols),
         column_list |-> AsSeq([k \in DOMAIN cols |-> cols[k].name])]

---------------------------------------------------------------------------
(* app/services/insights_generator.py and the route that calls it          *)
(*                                                                         *)
(* A confidence or an importance is held by its square, a fraction         *)
(* <<numerator, denominator>>, since that of a correlation insight is |r|  *)
(* and that of a distribution insight a multiple of |skewness|.            *)

RECURSIVE GCD(_, _)
GCD(a, b) == IF b = 0 THEN a ELSE GCD(b, a % b)

\* The fraction f in lowest terms.
Lowest(f) == <<f[1] \div GCD(f[1], f[2]), f[2] \div GCD(f[1], f[2])>>

\* A non-negative x held by its square, without the min(x, 1.0).
Uncapped(f) == Lowest(f)

\* min(x, 1.0) of a non-negative x held by its square.
CapSq(f) == IF f[1] > f[2] THEN <<1, 1>> ELSE Lowest(f)

\* df.select_dtypes(include = [np.number]).columns: the positions of the
\* columns of a numeric dtype, in column order.
NumberCols(cols) == SelectSeq(AsSeq([i \in DOMAIN cols |-> i]),
                              LAMBDA i : is_numeric_dtype(cols[i]))

\* _detect_missing_values: one insight for each column with a missing cell.
detect_missing_values(cols) ==
    LET having == SelectSeq(AsSeq([i \in DOMAIN cols |-> i]),
                            LAMBDA i : cols[i].nulls \cap Labels(cols[i]) # {})
    IN  AsSeq([k \in DOMAIN having |->
            LET col == cols[having[k]]
                null_count == Cardinality(col.nulls \cap Labels(col))
                rows == Len(col.cells)
            IN  [type |-> "missing_data",
                 category |-> "quality",
                 confidence |-> <<1, 1>>,
                 \* min(null_pct / 10, 1.0), null_pct = null_count / rows * 100
                 importance |-> CapSq(<<100 * null_count * null_count, rows * rows>>),
                 column_name |-> col.name,
                 metadata |-> [null_count |-> null_count, total_rows |-> rows]]])

\* The rows of the column outside [Q1 - 1.5 IQR, Q3 + 1.5 IQR], the
\* quartiles being those of its non-null values.
OutlierRows(col) ==
    LET data == dropna(col)
        Q1x4 == Quantile4(data.values, 1)
        Q3x4 == Quantile4(data.values, 3)
        IQRx4 == Q3x4 - Q1x4
    IN  {k \in DOMAIN data.values :
            \/ 8 * data.values[k] < 2 * Q1x4 - 3 * IQRx4
            \/ 8 * data.values[k] > 2 * Q3x4 + 3 * IQRx4}

\* _detect_outliers: one insight for each numeric column that has a value
\* and an outlier.
services_detect_outliers(cols) ==
    LET having == SelectSeq(NumberCols(cols),
                            LAMBDA i : ~AllNull(cols[i]) /\ OutlierRows(cols[i]) # {})
    IN  AsSeq([k \in DOMAIN having |->
            LET col == cols[having[k]]
                outliers == Cardinality(OutlierRows(col))
                rows == Len(col.cells)
            IN  [type |-> "outlier",
                 category |-> "anomaly",
                 confidence |-> <<16, 25>>,
                 \* min(outlier_pct / 5, 1.0)
                 importance |-> CapSq(<<400 * outliers * outliers, rows * rows>>),
                 column_name |-> col.name,
                 metadata |-> [outlier_count |-> outliers]]])

\* corr_matrix.iloc[i, j] of DataFrame.corr(): Pearson's r over the rows
\* where both columns have a value.
CorrOf(c1, c2) ==
    LET idx == CommonIdx(c1, c2)
    IN  pearsonr(ValuesAt(c1, idx), ValuesAt(c2, idx))

\* _detect_correlations: one insight for each pair of numeric columns with
\* |r| > 0.7, in the order of the two loops.
services_detect_correlations(cols) ==
    LET numeric_cols == NumberCols(cols)
        pairs == PairOrder(numeric_cols)
        strong == SelectSeq(pairs, LAMBDA pr :
                    LET r == CorrOf(cols[numeric_cols[pr[1]]], cols[numeric_cols[pr[2]]])
                    IN  ~IsNaN(r) /\ 100 * r.cov * r.cov > 49 * r.var)
    IN  IF Len(numeric_cols) < 2 THEN <<>>
        ELSE AsSeq([k \in DOMAIN strong |->
                LET c1 == cols[numeric_cols[strong[k][1]]]
                    c2 == cols[numeric_cols[strong[k][2]]]
                    r == CorrOf(c1, c2)
                IN  [type |-> "correlation",
                     category |-> "relationship",
                     confidence |-> Lowest(<<r.cov * r.cov, r.var>>),
                     importance |-> Lowest(<<r.cov * r.cov, r.var>>),
                     related_columns |-> <<c1.name, c2.name>>,
                     metadata |-> [correlation_type |->
                                      IF r.cov > 0 THEN "positive" ELSE "negative"]]])

\* n x - sum(x) for each of the n values x: n times the distance of x
\* from the mean.
Deviations(x) == AsSeq([k \in DOMAIN x |-> Len(x) * x[k] - SumSeq(x)])

\* sum D^2 and sum D^3 of the deviations D.
SumsOf(D) ==
    [S2 |-> SumSq(D),
     S3 |-> SumFn([k \in DOMAIN D |-> D[k] * D[k] * D[k]], 1, Len(D))]

\* The sums of the non-null values of a column.
CentralSums(col) == SumsOf(Deviations(dropna(col).values))

\* The square of the bias-corrected skewness G1 of n values whose sums are
\* S2 and S3: n^2 (n - 1) S3^2 over (n - 2)^2 S2^3, in lowest terms (S3 / S2
\* is reduced before it is squared); <<0, 1>> for nan (fewer than 3
\* values), for equal values and for symmetric ones.
SkewFraction(n, sums) ==
    IF n < 3 \/ sums.S2 = 0 \/ sums.S3 = 0 THEN <<0, 1>>
    ELSE LET q == Lowest(<<Abs(sums.S3), sums.S2>>)
         IN  Lowest(<<n * n * (n - 1) * q[1] * q[1],
                      (n - 2) * (n - 2) * sums.S2 * q[2] * q[2]>>)

\* The square of Series.skew() of a column.
SkewSq(col) == SkewFraction(Len(dropna(col).values), CentralSums(col))

\* abs(skewness) > 1, of a skewness held by its square.
IsSkewed(sk) == sk[1] > sk[2]

\* The insight of a skewed column.
DistributionInsight(name, sk, S3) ==
    [type |-> "distribution",
     category |-> "pattern",
     \* min(abs(skewness) / 3, 1.0), min(abs(skewness) / 5, 1.0)
     confidence |-> CapSq(<<sk[1], 9 * sk[2]>>),
     importance |-> CapSq(<<sk[1], 25 * sk[2]>>),
     column_name |-> name,
     metadata |-> [skew_type |-> IF S3 > 0 THEN "right-skewed" ELSE "left-skewed"]]

\* The columns at the positions idx, in that order.
ColumnsAt(cols, idx) == AsSeq([k \in DOMAIN idx |-> cols[idx[k]]])

\* The distribution insights of the columns skewed, all skewed.
DistributionInsights(skewed) ==
    AsSeq([k \in DOMAIN skewed |->
        DistributionInsight(skewed[k].name, SkewSq(skewed[k]),
                            CentralSums(skewed[k]).S3)])

\* _detect_distributions: one insight for each numeric column with a value
\* and |skewness| > 1.
detect_distributions(cols) ==
    DistributionInsights(
        SelectSeq(ColumnsAt(cols, NumberCols(cols)),
                  LAMBDA col : ~AllNull(col) /\ IsSkewed(SkewSq(col))))

\* _detect_unique_values: a column whose values are all different is a
\* 'unique_identifier', one with 2 to 19 different values 'categorical'.
detect_unique_values(cols) ==
    LET rows == Len(cols[1].cells)
        kind(i) == IF nunique(cols[i]) = rows /\ rows > 1 THEN "unique_identifier"
                   ELSE IF nunique(cols[i]) < UniqueLimit /\ nunique(cols[i]) > 1
                   THEN "categorical"
                   ELSE "none"
        having == SelectSeq(AsSeq([i \in DOMAIN cols |-> i]),
                            LAMBDA i : kind(i) # "none")
    IN  AsSeq([k \in DOMAIN having |->
            LET col == cols[having[k]]
            IN  [type |-> kind(having[k]),
                 category |-> "structure",
                 confidence |-> IF kind(having[k]) = "unique_identifier"
                                THEN <<1, 1>> ELSE <<49, 100>>,
                 importance |-> IF kind(having[k]) = "unique_identifier"
                                THEN <<9, 100>> ELSE <<16, 100>>,
                 column_name |-> col.name,
                 metadata |-> [unique_count |-> nunique(col)]]])

\* generate_all_insights: self.insights is emptied, the five detectors
\* append to it in turn, and the list is returned as it is.
generate_all_insights(cols) ==
    detect_missing_values(cols) \o services_detect_outliers(cols)
        \o services_detect_correlations(cols) \o detect_distributions(cols)
        \o detect_unique_values(cols)

\* get_insights, lines 289-337: the HTTP response to GET
\* /{dataset_id}/insights.  Each insight gets its position as 'id'.
get_insights(req) ==
    IF ~req.found THEN [status |-> 404, detail |-> "Dataset not found"]
    ELSE IF ~req.file_exists THEN [status |-> 404, detail |-> "File not found"]
    ELSE IF req.ext \notin {".csv", ".xlsx", ".xls", ".json"}
    THEN [status |-> 400, detail |-> "Unsupported file type"]
    ELSE IF ~req.readable
    THEN [status |-> 500, detail |-> "Failed to generate insights"]
    ELSE LET insights == generate_all_insights(req.cols)
         IN  [status |-> 200,
              success |-> TRUE,
              data |-> AsSeq([i \in DOMAIN insights |-> insights[i] @@ [id |-> i]])]

---------------------------------------------------------------------------
(* python/insight_generator.py: InsightGenerator and main(), insights mode *)
(*                                                                         *)
(* The instance is the record gen of its five lists.  An insight is        *)
(* [type, priority, subject], the subject standing for the column names    *)
(* its title is made of.  The frames of this script have no missing cell   *)
(* in a numeric column (fillna and the NaN mask then change nothing), at   *)
(* most two numeric columns, and date columns of ISO days, all different.  *)

\* InsightGenerator.__init__
NewGenerator ==
    [insights |-> <<>>, correlations |-> <<>>, outliers |-> <<>>,
     trends |-> <<>>, feature_importance |-> <<>>]

\* The days a date column is made of, in calendar order.
DayTexts ==
    <<"2024-01-01", "2024-01-02", "2024-01-03", "2024-01-04", "2024-01-05",
      "2024-01-06", "2024-01-07", "2024-01-08", "2024-01-09", "2024-01-10",
      "2024-01-11", "2024-01-12", "2024-01-13", "2024-01-14", "2024-01-15",
      "2024-01-16", "2024-01-17", "2024-01-18", "2024-01-19", "2024-01-20",
      "2024-01-21", "2024-01-22", "2024-01-23", "2024-01-24", "2024-01-25",
      "2024-01-26", "2024-01-27", "2024-01-28", "2024-01-29", "2024-01-30",
      "2024-01-31", "2024-02-01", "2024-02-02", "2024-02-03", "2024-02-04",
      "2024-02-05", "2024-02-06", "2024-02-07", "2024-02-08", "2024-02-09">>

\* The identifiers an id column is made of.
IdTexts ==
    <<"u01", "u02", "u03", "u04", "u05", "u06", "u07", "u08", "u09", "u10",
      "u11", "u12", "u13">>

\* pd.to_datetime reads the text.
Parseable(cell) ==
    cell \in Range(DayTexts) \cup DateTexts \cup IsoDateTexts
                \cup DateTimeTexts \cup TimeTexts

\* abs(corr['correlation']) > 0.8, where corr['correlation'] is
\* round(corr_value, 3): |r| is 0.8005 or more, r^2 more than 0.6408.
RoundedAbove08(r) == 1250 * r.cov * r.cov > 801 * r.var

\* abs(corr_value) > 0.7; False for nan.
IsStrong(r) == ~IsNaN(r) /\ 100 * r.cov * r.cov > 49 * r.var

\* The record of one strong correlation r between the columns named x, y.
CorrelationRecord(x, y, r) ==
    [x |-> x,
     y |-> y,
     correlation |-> r,
     strength |-> IF 100 * r.cov * r.cov > 64 * r.var THEN "strong" ELSE "moderate",
     direction |-> IF r.cov > 0 THEN "positive" ELSE "negative"]

\* The pairs of numeric columns, in the order of the two loops.
ColumnPairs(cols) ==
    AsSeq([k \in DOMAIN PairOrder(NumberCols(cols)) |->
        <<cols[NumberCols(cols)[PairOrder(NumberCols(cols))[k][1]]],
          cols[NumberCols(cols)[PairOrder(NumberCols(cols))[k][2]]]>>])

\* strong_correlations of analyze_correlations.
StrongCorrelations(pairs) ==
    AsSeq([k \in DOMAIN pairs |->
        CorrelationRecord(pairs[k][1].name, pairs[k][2].name,
                          CorrOf(pairs[k][1], pairs[k][2]))])

\* The insight of one strong correlation.
CorrelationInsight(corr) ==
    [type |-> "correlation",
     priority |-> IF RoundedAbove08(corr.correlation) THEN "high" ELSE "medium",
     subject |-> <<corr.x, corr.y>>]

\* The instance once strong_correlations has replaced self.correlations and
\* its insights are appended.
WithCorrelations(gen, strong_correlations) ==
    [gen EXCEPT
        !.correlations = strong_correlations,
        !.insights = @ \o AsSeq([k \in DOMAIN strong_correlations |->
                                    CorrelationInsight(strong_correlations[k])])]

\* analyze_correlations: with fewer than two numeric columns nothing is
\* touched.
ig_analyze_correlations(cols, gen) ==
    IF Len(NumberCols(cols)) < 2 THEN gen
    ELSE WithCorrelations(gen,
            StrongCorrelations(
                SelectSeq(ColumnPairs(cols),
                          LAMBDA pair : IsStrong(CorrOf(pair[1], pair[2])))))

\* The record detect_outliers appends for a column with count outliers.
OutlierRecord(col, count) ==
    [column |-> col.name,
     count |-> count,
     percentage |-> <<100 * count, Len(col.cells)>>]

\* The instance once the records of the columns having outliers are
\* appended, and an insight for each column of many, where they are more
\* than 5% of the rows.
WithOutliers(gen, having, many) ==
    [gen EXCEPT
        !.outliers = @ \o AsSeq([k \in DOMAIN having |->
            OutlierRecord(having[k], Cardinality(OutlierRows(having[k])))]),
        !.insights = @ \o AsSeq([k \in DOMAIN many |->
            [type |-> "outlier", priority |-> "medium",
             subject |-> <<many[k].name>>]])]

\* detect_outliers: the numeric columns of fewer than five distinct values
\* are skipped.
ig_detect_outliers(cols, gen) ==
    WithOutliers(gen,
        SelectSeq(ColumnsAt(cols, NumberCols(cols)), LAMBDA col :
            nunique(col) >= MinUnique /\ OutlierRows(col) # {}),
        SelectSeq(ColumnsAt(cols, NumberCols(cols)), LAMBDA col :
            /\ nunique(col) >= MinUnique
            /\ 100 * Cardinality(OutlierRows(col)) > 5 * Len(col.cells)))

\* pd.to_datetime(df[col].head(), errors = 'raise') succeeds: an object
\* column whose first five cells are dates (a missing cell is read as NaT).
HeadParses(col) ==
    /\ ~is_numeric_dtype(col)
    /\ \A l \in Labels(col) :
          (l < 5 /\ l \notin col.nulls) => Parseable(col.cells[l + 1])

\* pd.to_datetime(df_temp[date_col]) succeeds: every cell is a date or is
\* missing.
ColumnParses(col) ==
    \A l \in Labels(col) : l \in col.nulls \/ Parseable(col.cells[l + 1])

\* The position of the day of row l in the calendar; the rows without a
\* date come last.
DayOf(col, l) ==
    IF l \in col.nulls THEN Len(DayTexts) + 1 + l
    ELSE CHOOSE d \in DOMAIN DayTexts : DayTexts[d] = col.cells[l + 1]

\* df_temp.sort_values(date_col): the row labels in the order of the dates
\* of a column of different days.
DateOrder(col) ==
    AsSeq([k \in 1 .. Len(col.cells) |->
        CHOOSE l \in Labels(col) :
            Cardinality({m \in Labels(col) : DayOf(col, m) < DayOf(col, l)}) = k - 1])

\* The direction of the values y, in date order: "none" when the slope of
\* their regression on 0, 1, 2, ..., which is 6 A / (n (n^2 - 1)) with
\* A = CenteredXY2(y), is not more than a tenth of their standard deviation
\* (np.std, whose square is var / n^2; A^2 / var is reduced first).
TrendDirection(n, A, var) ==
    IF var = 0 THEN "none"
    ELSE LET q == Lowest(<<A * A, var>>)
         IN  IF 3600 * q[1] > (n * n - 1) * (n * n - 1) * q[2]
             THEN IF A > 0 THEN "increasing" ELSE "decreasing"
             ELSE "none"

\* The values of num_col in the order of the rows.
InOrder(num_col, order) ==
    AsSeq([k \in DOMAIN order |-> num_col.cells[order[k] + 1]])

\* The trend of a numeric column along a date column.
TrendOf(y) == TrendDirection(Len(y), CenteredXY2(y), VarNum(y))

TrendAlong(date_col, num_col) == TrendOf(InOrder(num_col, DateOrder(date_col)))

\* The pairs (date column, numeric column) of the two loops of
\* analyze_trends, in their order: none unless the frame has more than 10
\* rows.
TrendPairs(cols, date_cols, numerical_cols) ==
    IF Len(cols[1].cells) > MinTrendRows
    THEN AsSeq([k \in 1 .. Len(date_cols) * Len(numerical_cols) |->
            <<date_cols[((k - 1) \div Len(numerical_cols)) + 1],
              numerical_cols[((k - 1) % Len(numerical_cols)) + 1]>>])
    ELSE <<>>

\* The record of one significant trend.
TrendRecord(date_col, num_col, direction) ==
    [date_column |-> date_col.name,
     value_column |-> num_col.name,
     direction |-> direction]

\* The instance once the records and the insights of the significant
\* trends found are appended.
WithTrends(gen, found) ==
    [gen EXCEPT
        !.trends = @ \o AsSeq([k \in DOMAIN found |->
            TrendRecord(found[k][1], found[k][2],
                        TrendAlong(found[k][1], found[k][2]))]),
        !.insights = @ \o AsSeq([k \in DOMAIN found |->
            [type |-> "trend", priority |-> "high",
             subject |-> <<found[k][2].name, found[k][1].name>>]])]

\* analyze_trends: for each date column, whose every cell must be read by
\* pd.to_datetime (else the column is given up), and each numeric column, a
\* record in self.trends and an insight when the trend is significant.
ig_analyze_trends(cols, gen) ==
    WithTrends(gen,
        SelectSeq(TrendPairs(cols,
                             SelectSeq(cols, LAMBDA col :
                                          HeadParses(col) /\ ColumnParses(col)),
                             ColumnsAt(cols, NumberCols(cols))),
                  LAMBDA pair : TrendAlong(pair[1], pair[2]) # "none"))

\* sum of y over the rows where x has the value v, and their number.
GroupSum(x, y, v) ==
    SumFn([k \in 1 .. Len(y) |-> IF x[k] = v THEN y[k] ELSE 0], 1, Len(y))

GroupSize(x, v) == Cardinality({k \in DOMAIN x : x[k] = v})

\* DecisionTreeRegressor with one feature x and target y: the tree reduces
\* the impurity, and the importance of the feature is 1.0, when the mean of
\* y is not the same for every value of x; else the importance is 0.
TreeUsesFeature(x, y) ==
    \E a, b \in Range(x) :
        GroupSum(x, y, a) * GroupSize(x, b) # GroupSum(x, y, b) * GroupSize(x, a)

\* The pairs (target, feature) of two numeric columns, in the order of the
\* loop over the targets.
TargetPairs(numerical) ==
    <<<<numerical[1], numerical[2]>>, <<numerical[2], numerical[1]>>>>

\* The instance once the features of importance above 0.1 are added to
\* self.feature_importance, each with its 'driver' insight.
WithDrivers(gen, drivers) ==
    [gen EXCEPT
        !.feature_importance = @ \o AsSeq([k \in DOMAIN drivers |->
            [feature |-> drivers[k][2].name,
             importance |-> <<1, 1>>,
             target |-> drivers[k][1].name]]),
        !.insights = @ \o AsSeq([k \in DOMAIN drivers |->
            [type |-> "driver", priority |-> "high",
             subject |-> <<drivers[k][2].name, drivers[k][1].name>>]])]

\* calculate_feature_importance, for frames of at most two numeric columns:
\* each numeric column is the target once, the other one the feature.
ig_calculate_feature_importance(cols, gen) ==
    IF Len(NumberCols(cols)) < 2 THEN gen
    ELSE WithDrivers(gen,
            SelectSeq(TargetPairs(ColumnsAt(cols, NumberCols(cols))),
                      LAMBDA pair : TreeUsesFeature(pair[2].cells, pair[1].cells)))

\* df.isnull().sum().sum()
MissingCells(cols) ==
    SumFn([k \in DOMAIN cols |-> Cardinality(cols[k].nulls \cap Labels(cols[k]))],
          1, Len(cols))

\* The insights generate_summary_statistics appends to a frame of
\* total_rows rows, total_cols columns and missing_data missing cells.
SummaryInsights(total_rows, total_cols, missing_data) ==
    (IF total_rows > LargeRows
     THEN <<[type |-> "summary", priority |-> "low",
             subject |-> <<"Large dataset detected">>]>>
     ELSE <<>>)
    \o (IF 100 * missing_data > 10 * total_rows * total_cols
        THEN <<[type |-> "data_quality", priority |-> "medium",
                subject |-> <<"Significant missing data detected">>]>>
        ELSE <<>>)
    \o <<[type |-> "summary", priority |-> "low",
          subject |-> <<"Dataset composition overview">>]>>

\* generate_summary_statistics
ig_generate_summary_statistics(cols, gen) ==
    [gen EXCEPT !.insights =
        @ \o SummaryInsights(Len(cols[1].cells), Len(cols), MissingCells(cols))]

\* df[col].duplicated().sum(): the cells equal to an earlier cell of the
\* column, missing cells being equal to each other.
DuplicatedCount(col) ==
    Len(col.cells) - nunique(col)
        - (IF col.nulls \cap Labels(col) # {} THEN 1 ELSE 0)

\* The insights detect_data_quality_issues appends for one column.
QualityIssues(col) ==
    (IF col.name \in IdNames /\ DuplicatedCount(col) > 0
     THEN <<[type |-> "data_quality", priority |-> "high",
             subject |-> <<"Duplicate IDs", col.name>>]>>
     ELSE <<>>)
    \o (IF nunique(col) = 1 /\ Len(col.cells) > 1
        THEN <<[type |-> "data_quality", priority |-> "medium",
                subject |-> <<"Constant values", col.name>>]>>
        ELSE <<>>)

\* The insights detect_data_quality_issues appends for the columns
\* cols[from ..].
RECURSIVE QualityFrom(_, _)
QualityFrom(cols, from) ==
    IF from > Len(cols) THEN <<>>
    ELSE QualityIssues(cols[from]) \o QualityFrom(cols, from + 1)

\* detect_data_quality_issues
ig_detect_data_quality_issues(cols, gen) ==
    [gen EXCEPT !.insights = @ \o QualityFrom(cols, 1)]

\* priority_order.get(x['priority'], 0)
priority_order(priority) ==
    CASE priority = "high" -> 3
      [] priority = "medium" -> 2
      [] priority = "low" -> 1
      [] OTHER -> 0

\* The first n elements of s: s[:n].
Prefix(s, n) == SubSeq(s, 1, IF Len(s) < n THEN Len(s) ELSE n)

\* The keys of the sort of compile_final_insights.
PriorityKeys(insights) ==
    AsSeq([i \in DOMAIN insights |-> priority_order(insights[i].priority)])

\* self.insights.sort(key = ..., reverse = True)
SortByPriority(insights, key) ==
    SortDesc(insights, [i \in DOMAIN key, j \in DOMAIN key |-> key[i] > key[j]])

\* The document compile_final_insights returns once self.insights is
\* sorted: the first 10 insights, the three lists, the first 5 feature
\* importances and the counts (the summary sentence is held by the lists it
\* mentions; the timestamp is left out).
Document(gen, sorted) ==
    [summary |-> {part \in {"trends", "correlations", "outliers"} :
                     Len(gen[part]) > 0},
     insights |-> Prefix(sorted, TopInsights),
     correlations |-> gen.correlations,
     outliers |-> gen.outliers,
     trends |-> gen.trends,
     feature_importance |-> Prefix(gen.feature_importance, TopDrivers),
     metadata |->
        [total_insights |-> Len(sorted),
         high_priority |->
            Cardinality({i \in DOMAIN sorted : sorted[i].priority = "high"})]]

\* compile_final_insights: self.insights is sorted in place by priority,
\* highest first, and the document is returned.
compile_final_insights(gen) ==
    CHOOSE r \in {[gen |-> [gen EXCEPT !.insights = sorted],
                   value |-> Document(gen, sorted)] :
                     sorted \in {SortByPriority(gen.insights,
                                                PriorityKeys(gen.insights))}} : TRUE

\* The stages of generate_insights, in the order of its calls.
StageOrder ==
    <<"analyze_correlations", "detect_outliers", "analyze_trends",
      "calculate_feature_importance", "generate_summary_statistics",
      "detect_data_quality_issues", "compile_final_insights">>

\* The k-th stage on the instance g, for the stages before the compilation.
Stage(k, cols, g) ==
    CASE k = 1 -> ig_analyze_correlations(cols, g)
      [] k = 2 -> ig_detect_outliers(cols, g)
      [] k = 3 -> ig_analyze_trends(cols, g)
      [] k = 4 -> ig_calculate_feature_importance(cols, g)
      [] k = 5 -> ig_generate_summary_statistics(cols, g)
      [] k = 6 -> ig_detect_data_quality_issues(cols, g)

\* The instance after the first k stages on the instance gen.
RECURSIVE AfterStages(_, _, _)
AfterStages(cols, gen, k) ==
    IF k = 0 THEN gen
    ELSE CHOOSE r \in {Stage(k, cols, g) :
                          g \in {AfterStages(cols, gen, k - 1)}} : TRUE

\* The stages that end before the stage at position raises is entered: all
\* those before the compilation when no stage raises.
StagesBefore(raises) ==
    IF raises = 0 THEN Len(StageOrder) - 1 ELSE raises - 1

\* What generate_insights returns once the stages before the raising one,
\* or all of them, have left the instance g: the error document of the
\* handler, or the compiled document.
Outcome(raises, g) ==
    IF raises > 0
    THEN [gen |-> g,
          stages |-> SubSeq(StageOrder, 1, raises),
          value |-> [error |-> "exception raised by the stage"]]
    ELSE [stages |-> StageOrder] @@ compile_final_insights(g)

\* generate_insights were an exception of a stage swallowed: the stages
\* after it run and the document is compiled.
generate_insights_resuming(files, gen) ==
    IF ~files.data_readable
    THEN [gen |-> gen, stages |-> <<>>,
          value |-> [error |-> "No such file or directory: data"]]
    ELSE IF ~files.metadata_readable
    THEN [gen |-> gen, stages |-> <<>>,
          value |-> [error |-> "No such file or directory: metadata"]]
    ELSE CHOOSE r \in {Outcome(0, g) :
                          g \in {AfterStages(files.cols, gen,
                                              StagesBefore(0))}} : TRUE

\* generate_insights(data_file, metadata_file) on an instance whose lists
\* are gen: the instance afterwards, the document returned and the stages
\* entered.  A file that cannot be read raises inside the try block before
\* the first stage; files.raises is the position in StageOrder of the
\* stage that raises an exception it does not catch (as soon as it is
\* entered), 0 when none does.  The handler of the try block returns the
\* error document.
generate_insights(files, gen) ==
    IF ~files.data_readable
    THEN [gen |-> gen, stages |-> <<>>,
          value |-> [error |-> "No such file or directory: data"]]
    ELSE IF ~files.metadata_readable
    THEN [gen |-> gen, stages |-> <<>>,
          value |-> [error |-> "No such file or directory: metadata"]]
    ELSE CHOOSE r \in {Outcome(files.raises, g) :
                          g \in {AfterStages(files.cols, gen,
                                              StagesBefore(files.raises))}} : TRUE

---------------------------------------------------------------------------
(* semantic_analyzer.py                                                    *)
(*                                                                         *)
(* Column names are strings.  The regular expressions of the category      *)
(* table have three forms, which re.match, anchored at the start of the    *)
(* name, reads as: '.*w$' the name ends in w; 'w.*' and '^w.*' the name    *)
(* begins with w; 'v.*w' the name begins with v and holds w after it.      *)

EndsIn(w) == [head |-> "", tail |-> w, to_end |-> TRUE]
BeginsWith(w) == [head |-> w, tail |-> "", to_end |-> FALSE]
Between(v, w) == [head |-> v, tail |-> w, to_end |-> FALSE]

\* self.semantic_categories, in the order of the dict.
semantic_categories ==
  <<
    [category |-> "identifier",
     patterns |-> <<EndsIn("id"), EndsIn("_id"), BeginsWith("id"),
                   EndsIn("key"), EndsIn("_key")>>,
     keywords |-> <<"id", "key", "identifier", "uuid", "guid">>,
     type_hints |-> {"integer", "string"}],
    [category |-> "personal_name",
     patterns |-> <<EndsIn("name"), Between("first", "name"),
                   Between("last", "name"), Between("full", "name")>>,
     keywords |-> <<"name", "firstname", "lastname", "fullname",
                   "username">>,
     type_hints |-> {"string"}],
    [category |-> "email",
     patterns |-> <<EndsIn("email"), EndsIn("mail")>>,
     keywords |-> <<"email", "mail", "e-mail">>,
     type_hints |-> {"string"}],
    [category |-> "phone",
     patterns |-> <<EndsIn("phone"), EndsIn("tel"), EndsIn("mobile")>>,
     keywords |-> <<"phone", "telephone", "mobile", "tel">>,
     type_hints |-> {"string"}],
    [category |-> "address",
     patterns |-> <<EndsIn("address"), EndsIn("street"), EndsIn("city"),
                   EndsIn("state"), EndsIn("zip"), EndsIn("postal")>>,
     keywords |-> <<"address", "street", "city", "state", "zip", "postal",
                   "country">>,
     type_hints |-> {"string"}],
    [category |-> "date_time",
     patterns |-> <<EndsIn("date"), EndsIn("time"), BeginsWith("created"),
                   BeginsWith("updated"), EndsIn("_at"), EndsIn("_on")>>,
     keywords |-> <<"date", "time", "created", "updated", "timestamp">>,
     type_hints |-> {"date", "string"}],
    [category |-> "currency",
     patterns |-> <<EndsIn("price"), EndsIn("cost"), EndsIn("amount"),
                   EndsIn("salary"), EndsIn("revenue"), EndsIn("profit")>>,
     keywords |-> <<"price", "cost", "amount", "salary", "revenue",
                   "profit", "money", "currency", "dollar">>,
     type_hints |-> {"float", "integer"}],
    [category |-> "percentage",
     patterns |-> <<EndsIn("rate"), EndsIn("ratio"), EndsIn("percent"),
                   EndsIn("pct")>>,
     keywords |-> <<"rate", "ratio", "percent", "percentage", "pct">>,
     type_hints |-> {"float"}],
    [category |-> "category",
     patterns |-> <<EndsIn("type"), EndsIn("category"), EndsIn("class"),
                   EndsIn("group"), EndsIn("status")>>,
     keywords |-> <<"type", "category", "class", "group", "status",
                   "classification">>,
     type_hints |-> {"string"}],
    [category |-> "quantity",
     patterns |-> <<EndsIn("count"), EndsIn("number"), EndsIn("qty"),
                   EndsIn("quantity"), EndsIn("size")>>,
     keywords |-> <<"count", "number", "quantity", "qty", "size", "total">>,
     type_hints |-> {"integer", "float"}],
    [category |-> "coordinates",
     patterns |-> <<EndsIn("lat"), EndsIn("lng"), EndsIn("lon"),
                   EndsIn("latitude"), EndsIn("longitude")>>,
     keywords |-> <<"latitude", "longitude", "lat", "lng", "lon",
                   "coordinates">>,
     type_hints |-> {"float"}],
    [category |-> "url",
     patterns |-> <<EndsIn("url"), EndsIn("link"), EndsIn("website")>>,
     keywords |-> <<"url", "link", "website", "uri">>,
     type_hints |-> {"string"}],
    [category |-> "description",
     patterns |-> <<EndsIn("desc"), EndsIn("description"),
                   EndsIn("comment"), EndsIn("note")>>,
     keywords |-> <<"description", "desc", "comment", "note", "remarks">>,
     type_hints |-> {"string"}]
  >>

\* keyword in s
Contains(s, w) ==
    \E i \in 0 .. Len(s) - Len(w) : SubSeq(s, i + 1, i + Len(w)) = w

\* re.match(pattern, s)
re_match(pattern, s) ==
    /\ Len(s) >= Len(pattern.head)
    /\ SubSeq(s, 1, Len(pattern.head)) = pattern.head
    /\ LET rest == SubSeq(s, Len(pattern.head) + 1, Len(s))
       IN  IF pattern.to_end
           THEN /\ Len(rest) >= Len(pattern.tail)
                /\ SubSeq(rest, Len(rest) - Len(pattern.tail) + 1, Len(rest))
                     = pattern.tail
           ELSE Contains(rest, pattern.tail)

UpperLetters == "ABCDEFGHIJKLMNOPQRSTUVWXYZ"
LowerLetters == "abcdefghijklmnopqrstuvwxyz"

\* str.lower() of one character.
LowerChar(ch) ==
    IF \E i \in 1 .. Len(UpperLetters) : SubSeq(UpperLetters, i, i) = ch
    THEN LET i == CHOOSE i \in 1 .. Len(UpperLetters) : SubSeq(UpperLetters, i, i) = ch
         IN  SubSeq(LowerLetters, i, i)
    ELSE ch

\* str.lower()
RECURSIVE lower(_)
lower(s) ==
    IF s = "" THEN ""
    ELSE LowerChar(SubSeq(s, 1, 1)) \o lower(SubSeq(s, 2, Len(s)))

\* str.strip(): the name without the blanks at its two ends.
strip(s) ==
    LET inked == {i \in 1 .. Len(s) : SubSeq(s, i, i) # " "}
    IN  IF inked = {} THEN ""
        ELSE SubSeq(s, CHOOSE i \in inked : \A j \in inked : i <= j,
                       CHOOSE i \in inked : \A j \in inked : j <= i)

\* The score of one category in analyze_column_name: 2 for the type hint, 3
\* for each pattern that matches and 2 for each keyword the name holds.
category_score(rules, column_lower, data_type) ==
    (IF data_type \in rules.type_hints THEN 2 ELSE 0)
      + 3 * Cardinality({p \in DOMAIN rules.patterns :
                            re_match(rules.patterns[p], column_lower)})
      + 2 * Cardinality({k \in DOMAIN rules.keywords :
                            Contains(column_lower, rules.keywords[k])})

\* scores of analyze_column_name, in the order of the dict.
name_scores(column_name, data_type) ==
    AsSeq([c \in DOMAIN semantic_categories |->
              category_score(semantic_categories[c], strip(lower(column_name)),
                             data_type)])

\* max(scores.items(), key = lambda x: x[1]): the first item of the dict
\* that has the highest score.
max_item(scores) ==
    LET c == CHOOSE c \in DOMAIN scores :
                /\ \A d \in DOMAIN scores : scores[d] <= scores[c]
                /\ \A d \in 1 .. c - 1 : scores[d] < scores[c]
    IN  <<semantic_categories[c].category, scores[c]>>

\* analyze_column_name
analyze_column_name(column_name, data_type) ==
    LET scores == name_scores(column_name, data_type)
    IN  IF max_item(scores)[2] > 0 THEN max_item(scores) ELSE <<"generic", 0>>

\* A sample value is a string: a JSON null is NullText, a JSON number its
\* decimal text.  The texts stand for what the patterns of
\* analyze_sample_values tell apart.
NullText == "<null>"
PhoneTexts == {"555-123-4567"}
MoneyTexts == {"$5.00"}
NumberTexts == {"45", "120", "200"}

\* float(val) of a text of digits.
NumberOf(val) ==
    CASE val = "45" -> 45
      [] val = "120" -> 120
      [] val = "200" -> 200

\* re.match(email_pattern, val)
IsEmail(val) == val \in EmailTexts

\* re.match(phone_pattern, re.sub(r'[^0-9+]', '', val)): 7 to 16 digits are
\* left of a phone number, of an ISO date (20240115) and of a date with a
\* time of day (1520241030), fewer of the other texts.
IsPhone(val) == val \in PhoneTexts \cup IsoDateTexts \cup DateTimeTexts

\* re.match(url_pattern, val)
IsUrl(val) == val \in UrlTexts

\* re.match(currency_pattern, val)
IsCurrency(val) == val \in MoneyTexts

\* pd.to_datetime(val) does not raise.  Whether it reads the text of a bare
\* number depends on the date parser; numbers_parse is what it does.
ToDatetimeReads(val, numbers_parse) ==
    \/ val \in DateTexts \cup IsoDateTexts \cup DateTimeTexts \cup TimeTexts
    \/ val \in NumberTexts /\ numbers_parse

\* The result of analyze_sample_values, NoValueResult for None.
NoValueResult == <<"", 0>>

\* The coordinate test at the end of analyze_sample_values.
coordinates_result(str_values, column_name, data_type) ==
    LET numeric_values == SelectSeq(str_values, LAMBDA v : v \in NumberTexts)
        within(bound) == \A k \in DOMAIN numeric_values :
                            NumberOf(numeric_values[k]) <= bound
        named == lower(column_name)
    IN  IF data_type \in {"float", "integer"} /\ numeric_values # <<>>
           /\ \/ within(90) /\ Contains(named, "lat")
              \/ within(180) /\ (Contains(named, "lng") \/ Contains(named, "lon"))
        THEN <<"coordinates", 4>>
        ELSE NoValueResult

\* analyze_sample_values
analyze_sample_values(sample_values, column_name, data_type, numbers_parse) ==
    LET str_values == SelectSeq(sample_values, LAMBDA v : v # NullText)
        first5 == SubSeq(str_values, 1, IF Len(str_values) < 5 THEN Len(str_values)
                                          ELSE 5)
        date_count == Cardinality({k \in DOMAIN first5 :
                                      ToDatetimeReads(first5[k], numbers_parse)})
    IN  IF str_values = <<>> THEN NoValueResult
        ELSE IF \E k \in DOMAIN str_values : IsEmail(str_values[k])
        THEN <<"email", 5>>
        ELSE IF \E k \in DOMAIN str_values : IsPhone(str_values[k])
        THEN <<"phone", 5>>
        ELSE IF \E k \in DOMAIN str_values : IsUrl(str_values[k])
        THEN <<"url", 5>>
        ELSE IF \E k \in DOMAIN str_values : IsCurrency(str_values[k])
        THEN <<"currency", 4>>
        ELSE IF 10 * date_count >= 8 * Len(first5)
        THEN <<"date_time", 4>>
        ELSE coordinates_result(str_values, column_name, data_type)

\* classify_column
classify_column(column_data, numbers_parse) ==
    LET name_result == analyze_column_name(column_data.name, column_data.type)
        value_result == analyze_sample_values(column_data.sample_values,
                            column_data.name, column_data.type, numbers_parse)
    IN  IF value_result # NoValueResult /\ value_result[2] > name_result[2]
        THEN [semantic_type |-> value_result[1],
              confidence |-> value_result[2],
              method |-> "value_analysis"]
        ELSE [semantic_type |-> name_result[1],
              confidence |-> name_result[2],
              method |-> "name_analysis"]

\* The classifications main() writes, one for each column of the input.
classifications(columns, numbers_parse) ==
    AsSeq([k \in DOMAIN columns |->
              [column_name |-> columns[k].name, original_type |-> columns[k].type]
                @@ classify_column(columns[k], numbers_parse)])

---------------------------------------------------------------------------
(* The inputs of the column runners.                                       *)

ColumnName == "amount"

\* A short column: base value 5 (constant) or 4, 6, 4, 6, ... with one cell,
\* at label p (none when p = -1), holding 100.
SmallColumn(n, base, p, nulls, kind) ==
    [kind  |-> kind,
     nulls |-> nulls,
     cells |-> AsSeq([i \in 1 .. n |->
                  IF i - 1 = p THEN 100
                  ELSE IF base = "const" THEN 5
                  ELSE 4 + 2 * ((i - 1) % 2)])]

NullPatterns(n) == {{}, {0}, {0, 1} \cap (0 .. n - 1), {n - 1}}

SmallColumns ==
    UNION {{SmallColumn(n, b, p, nl, "numeric") :
                b \in {"const", "alt"}, p \in {-1, 0, n \div 2, n - 1},
                nl \in NullPatterns(n)}
           : n \in 1 .. MaxRows}
    \cup {SmallColumn(n, "alt", -1, nl, "text") :
                n \in {MaxRows - 1, MaxRows}, nl \in {{}, {0}}}

\* A long column: -1 on the first q labels, 1 on the last q, 0 between,
\* q = (n - 1) / 4 - 1, and 20 at label p (none when p = -1).  Q1 = Q3 = 0,
\* so the IQR detector flags every non-zero cell: more than 50 rows.
BigColumn(p, nulls) ==
    LET n == BigRows
        q == (n - 1) \div 4 - 1
    IN  [kind  |-> "numeric",
         nulls |-> nulls,
         cells |-> AsSeq([i \in 1 .. n |->
                      IF i - 1 = p THEN 20
                      ELSE IF i - 1 < q THEN -1
                      ELSE IF i - 1 >= n - q THEN 1
                      ELSE 0])]

BigColumns ==
    {BigColumn(p, nl) :
        p \in {-1, 0, BigRows \div 2, BigRows - 1},
        nl \in {{}, {0}, {BigRows \div 2 + 1}}}

\* A column for the trend runner, by shape: "linear" is y = 2 x, "noisy" a
\* ramp whose first eight rows zigzag, "step" a zigzag that jumps by 9 at
\* the middle row.
TrendColumn(shape, n, nulls) ==
    [kind  |-> "numeric",
     nulls |-> nulls,
     cells |-> AsSeq([k \in 1 .. n |->
                  LET i == k - 1
                  IN  CASE shape = "linear" -> 2 * i
                        [] shape = "noisy" ->
                              i + (IF i < 8 THEN 2 * (i % 2) ELSE 0)
                        [] OTHER ->
                              (i % 2) + (IF i >= n \div 2 THEN 9 ELSE 0)])]

TrendColumns ==
    {TrendColumn(sh, n, nl) :
        sh \in {"linear", "noisy", "step"},
        n \in MinTrendPoints .. TrendRows,
        nl \in {{}, {0}, {1}}}

\* What IsolationForest(contamination = 0.1).fit_predict may do on the
\* column: raise, or mark at most a tenth of the rows (rounded up), here
\* taken among the first label, the last label and the label of a maximum.
ForestOutcomes(col) ==
    LET data == dropna(col)
        n == Len(data.index)
        cand == IF n = 0 THEN {}
                ELSE {data.index[1], data.index[n],
                      data.index[CHOOSE k \in 1 .. n :
                                    \A j \in 1 .. n : data.values[j] <= data.values[k]]}
    IN  {[raises |-> TRUE, flagged |-> {}]}
        \cup {[raises |-> FALSE, flagged |-> f] :
                f \in {g \in SUBSET cand : 10 * Cardinality(g) < n + 10}}

\* The column runners, the correlation runner and the type runners before
\* they are started.
ColumnIdle ==
    /\ argv = <<"prog">>
    /\ csv = [readable |-> FALSE]
    /\ forest = [raises |-> FALSE, flagged |-> {}]
    /\ df = NoDf
    /\ pc = "idle"
    /\ stdout = <<>>
    /\ exit_status = -1
    /\ detected = NoDetected

CorrIdle ==
    /\ cargv = <<"prog">>
    /\ cfile = [readable |-> FALSE, cols |-> <<>>]
    /\ cdf = NoDf
    /\ cpc = "idle"
    /\ cstdout = <<>>
    /\ cexit = -1
    /\ retained = <<>>

TypesIdle ==
    /\ targv = <<"prog">>
    /\ tfile = [readable |-> FALSE, cols |-> <<>>]
    /\ tdf = NoDf
    /\ tpc = "idle"
    /\ tstdout = <<>>
    /\ texit = -1
    /\ traceback = FALSE
    /\ tcalls = <<>>
    /\ np_state = 0

SemanticIdle ==
    /\ aargs = [input |-> FALSE, output |-> FALSE]
    /\ ainput = [readable |-> FALSE]
    /\ apc = "idle"
    /\ areturns = <<>>
    /\ aoutput = NoFile
    /\ astdout = <<>>
    /\ astderr = <<>>
    /\ aexit = -1

InsightsIdle ==
    /\ sreq = [found |-> FALSE]
    /\ sresp = NoResponse
    /\ iargs = [mode |-> FALSE, data |-> FALSE, metadata |-> FALSE,
                output |-> FALSE]
    /\ ifiles = [data_readable |-> FALSE]
    /\ generator = NoGenerator
    /\ ipc = "idle"
    /\ ireturns = <<>>
    /\ istages = <<>>
    /\ ioutput = NoFile
    /\ istdout = <<>>
    /\ istderr = <<>>
    /\ iexit = -1

Argvs ==
    {<<"prog">>, <<"prog", "data.csv">>,
     <<"prog", "data.csv", ColumnName>>, <<"prog", "data.csv", "other">>}

InitColumn ==
    /\ runner \in {"anomaly", "trend"}
    /\ \/ /\ argv = <<"prog", "data.csv", ColumnName>>
          /\ \E c \in SmallColumns \cup BigColumns
                        \cup (IF runner = "trend" THEN TrendColumns ELSE {}) :
                /\ csv = [readable |-> TRUE, name |-> ColumnName, col |-> c]
                /\ IF runner = "anomaly"
                   THEN forest \in ForestOutcomes(c)
                   ELSE forest = [raises |-> FALSE, flagged |-> {}]
       \/ /\ argv \in Argvs
          /\ \E r \in BOOLEAN :
                csv = [readable |-> r, name |-> ColumnName,
                       col |-> SmallColumn(MaxRows, "alt", 0, {}, "numeric")]
          /\ forest = [raises |-> FALSE, flagged |-> {}]
    /\ df = NoDf
    /\ pc = "start"
    /\ stdout = <<>>
    /\ exit_status = -1
    /\ detected = NoDetected
    /\ CorrIdle
    /\ TypesIdle
    /\ InsightsIdle
    /\ SemanticIdle

\* The except block of main(): the error document and sys.exit(1).
\* 'column': sys.argv[2] if len(sys.argv) > 2 else None.
ErrorDocument(message) ==
    LET column == IF Len(argv) > 2 THEN argv[3] ELSE NoneVal
    IN  IF runner = "anomaly"
        THEN [error |-> message, column |-> column, anomalies |-> <<>>]
        ELSE [error |-> message, column |-> column]

ExitWithError(message) ==
    /\ stdout' = Append(stdout, ErrorDocument(message))
    /\ exit_status' = 1
    /\ pc' = "exited"

\* main(), up to detector.load_data(): the argument check of lines 165-166,
\* then load_data (read_csv, then the column check).
MainLoad ==
    /\ runner \in {"anomaly", "trend"}
    /\ pc = "start"
    /\ IF Len(argv) < 3
       THEN /\ ExitWithError("Missing arguments: csv_path, column_name")
            /\ UNCHANGED df
       ELSE IF ~csv.readable
       THEN /\ ExitWithError("Error loading data: No such file")
            /\ UNCHANGED df
       ELSE IF argv[3] # csv.name
       THEN /\ ExitWithError("Error loading data: Column not found")
            \* self.df is assigned before the column check
            /\ df' = [loaded |-> TRUE, name |-> csv.name, col |-> csv.col]
       ELSE /\ df' = [loaded |-> TRUE, name |-> csv.name, col |-> csv.col]
            /\ pc' = "loaded"
            /\ UNCHANGED <<stdout, exit_status>>
    /\ UNCHANGED <<runner, argv, csv, forest, detected, corrVars, typeVars, insVars, semVars>>

\* anomaly_detector.main(), from detect_anomalies() to the end.
MainDetectAnomalies ==
    /\ runner = "anomaly"
    /\ pc = "loaded"
    /\ LET r == detect_anomalies(df.col, argv[3], forest)
       IN  /\ detected' = r.detected
           /\ IF r.raised
              THEN ExitWithError(r.error)
              ELSE /\ stdout' = Append(stdout, r.value)
                   /\ exit_status' = 0
                   /\ pc' = "exited"
    /\ UNCHANGED <<runner, argv, csv, forest, df, corrVars, typeVars, insVars, semVars>>

\* trend_detector.main(), from detect_trend() to the end.
MainDetectTrend ==
    /\ runner = "trend"
    /\ pc = "loaded"
    /\ LET r == detect_trend(df.col, argv[3])
       IN  IF r.raised
           THEN ExitWithError(r.error)
           ELSE /\ stdout' = Append(stdout, r.value)
                /\ exit_status' = 0
                /\ pc' = "exited"
    /\ UNCHANGED <<runner, argv, csv, forest, df, detected, corrVars, typeVars, insVars, semVars>>

NextColumn == MainLoad \/ MainDetectAnomalies \/ MainDetectTrend

SpecColumn == InitColumn /\ [][NextColumn]_vars

---------------------------------------------------------------------------
(* The inputs of the correlation runner.                                   *)

ColNames == <<"a", "b", "c", "d", "e", "f", "g", "h", "i", "j">>

\* The cell at label i of a column of n rows, by shape.
ShapeCell(shape, i, n) ==
    CASE shape = 0 -> i                                  \* rising
      [] shape = 1 -> n - 1 - i                          \* falling
      [] shape = 2 -> i % 2                              \* alternating
      [] shape = 3 -> Abs(2 * i - (n - 1))               \* a vee
      [] shape = 4 -> IF 2 * i < n THEN 0 ELSE 2         \* a step
      [] shape = 5 -> IF i = 1 THEN 3 ELSE 0             \* a spike
      [] shape = 6 -> i \div 2                           \* stairs
      [] shape = 7 -> 1                                  \* constant
      [] OTHER -> i                                      \* 8 .. 11: rising

\* Shapes 8, 9, 10 miss their first 1, 2, 3 cells; shape 11 is text.
ShapeNulls(shape, n) ==
    CASE shape = 8 -> {0}
      [] shape = 9 -> {0, 1} \cap (0 .. n - 1)
      [] shape = 10 -> {0, 1, 2} \cap (0 .. n - 1)
      [] OTHER -> {}

NShapes == 12

CorrColumn(shape, n, name) ==
    [name  |-> name,
     kind  |-> IF shape = 11 THEN "text" ELSE "numeric",
     nulls |-> ShapeNulls(shape, n),
     cells |-> AsSeq([k \in 1 .. n |-> ShapeCell(shape, k - 1, n)])]

\* A dataset of m columns of n rows: column k has shape start + (k-1) step.
Dataset(m, n, start, step) ==
    AsSeq([k \in 1 .. m |->
              CorrColumn((start + (k - 1) * step) % NShapes, n, ColNames[k])])

Datasets ==
    {Dataset(m, n, start, step) :
        m \in 1 .. MaxCols, n \in MinCommon .. CorrRows,
        start \in 0 .. NShapes - 1, step \in {0, 1}}

\* float(sys.argv[2]), in tenths; -1 when float() raises ValueError.
ParseThreshold10(str) ==
    CASE str = "0.7" -> 7
      [] str = "0.5" -> 5
      [] str = "0.0" -> 0
      [] OTHER -> -1

CorrArgvs ==
    {<<"prog">>, <<"prog", "data.csv">>, <<"prog", "data.csv", "0.5">>,
     <<"prog", "data.csv", "0.0">>, <<"prog", "data.csv", "high">>}

InitCorr ==
    /\ runner = "correlation"
    /\ \/ /\ cargv \in {a \in CorrArgvs : Len(a) >= 2 /\ a[Len(a)] # "high"}
          /\ \E d \in Datasets : cfile = [readable |-> TRUE, cols |-> d]
       \/ /\ cargv \in CorrArgvs
          /\ \E r \in BOOLEAN :
                cfile = [readable |-> r, cols |-> Dataset(2, CorrRows, 0, 0)]
    /\ cdf = NoDf
    /\ cpc = "start"
    /\ cstdout = <<>>
    /\ cexit = -1
    /\ retained = <<>>
    /\ ColumnIdle
    /\ TypesIdle
    /\ InsightsIdle
    /\ SemanticIdle

\* The except block of correlation main().
CorrExitWithError(message) ==
    /\ cstdout' = Append(cstdout, [error |-> message, correlations |-> <<>>])
    /\ cexit' = 1
    /\ cpc' = "exited"

\* The threshold main() passes to CorrelationAnalyzer: 0.7 by default.
Threshold10 == IF Len(cargv) > 2 THEN ParseThreshold10(cargv[3]) ELSE 7

\* correlation main(), up to analyzer.load_data().
CorrMainLoad ==
    /\ runner = "correlation"
    /\ cpc = "start"
    /\ IF Len(cargv) < 2
       THEN /\ CorrExitWithError("Missing arguments: csv_path, [threshold]")
            /\ UNCHANGED cdf
       ELSE IF Threshold10 < 0
       THEN /\ CorrExitWithError("could not convert string to float")
            /\ UNCHANGED cdf
       ELSE IF ~cfile.readable
       THEN /\ CorrExitWithError("Error loading data: No such file")
            /\ UNCHANGED cdf
       ELSE /\ cdf' = [loaded |-> TRUE, cols |-> cfile.cols]
            /\ cpc' = "loaded"
            /\ UNCHANGED <<cstdout, cexit>>
    /\ UNCHANGED <<runner, cargv, cfile, retained, colVars, typeVars, insVars, semVars>>

\* correlation main(), from analyze_correlations() to the end.
CorrMainAnalyze ==
    /\ runner = "correlation"
    /\ cpc = "loaded"
    /\ LET r == analyze_correlations(cdf.cols, Threshold10)
       IN  /\ retained' = r.retained
           /\ IF r.raised
              THEN CorrExitWithError(r.error)
              ELSE /\ cstdout' = Append(cstdout, r.value)
                   /\ cexit' = 0
                   /\ cpc' = "exited"
    /\ UNCHANGED <<runner, cargv, cfile, cdf, colVars, typeVars, insVars, semVars>>

NextCorr == CorrMainLoad \/ CorrMainAnalyze

SpecCorr == InitCorr /\ [][NextCorr]_vars

\* The runs of the three runners that report a column's or a dataset's
\* findings: those of SpecColumn and those of SpecCorr.
InitRunners == InitColumn \/ InitCorr

NextRunners == NextColumn \/ NextCorr

SpecRunners == InitRunners /\ [][NextRunners]_vars

---------------------------------------------------------------------------
(* The inputs of the type detector and of the profiler, and their runs.    *)

\* The two texts of each family, in the order a column uses them.
Family(f) ==
    CASE f = "email" -> <<"a@b.co", "c@d.org">>
      [] f = "url" -> <<"http://x.io", "http://y.io">>
      [] f = "plain" -> <<"abc", "xyz">>
      [] f = "yesno" -> <<"yes", "no">>
      [] f = "date" -> <<"Jan 15, 2024", "Feb 20, 2024">>
      [] f = "iso" -> <<"2024-01-15", "2024-02-20">>
      [] f = "datetime" -> <<"Jan 15, 2024 10:30", "Feb 20, 2024 11:45">>
      [] f = "time" -> <<"10:30", "11:45">>

Families == {"email", "url", "plain", "yesno", "date", "iso", "datetime", "time"}
\* The families that fill the rest of a column.
Fillers == {"plain", "email"}

\* A text column of n rows: k cells of family fa, then cells of family fb,
\* each family giving its two texts in turn (vary) or its first only.
TextColumn(name, fa, fb, k, n, vary, nulls) ==
    [name  |-> name,
     kind  |-> "text",
     nulls |-> nulls,
     cells |-> AsSeq([i \in 1 .. n |->
                  LET f == Family(IF i <= k THEN fa ELSE fb)
                  IN  IF vary THEN f[((i - 1) % 2) + 1] ELSE f[1]])]

\* A numeric column of n rows: 0, 1, 2, ... ("seq"), 7, 7, ... ("const"),
\* 0, 1, 0, 1, ... ("bits"), 0, 10, 20, ... ("tens"), 89, 91, 93, ...
\* ("far").
NumColumn(name, shape, n, nulls) ==
    [name  |-> name,
     kind  |-> "numeric",
     nulls |-> nulls,
     cells |-> AsSeq([i \in 1 .. n |->
                  CASE shape = "seq" -> i - 1
                    [] shape = "const" -> 7
                    [] shape = "bits" -> (i - 1) % 2
                    [] shape = "tens" -> 10 * (i - 1)
                    [] shape = "far" -> 87 + 2 * i])]

NumShapes == {"seq", "const", "bits", "tens", "far"}

\* A column of SampleCap + 1 rows, of which the sample leaves one out: 200
\* plain texts at the odd (parity 1) or even (parity 0) positions up to 400,
\* e-mail addresses at the other 801 positions.
LongColumn(name, parity) ==
    [name  |-> name,
     kind  |-> "text",
     nulls |-> {},
     cells |-> AsSeq([i \in 1 .. SampleCap + 1 |->
                  IF i <= 400 /\ i % 2 = parity
                  THEN Family("plain")[((i \div 2) % 2) + 1]
                  ELSE Family("email")[((i \div 2) % 2) + 1]])]

\* The datasets of one text column, of one numeric column, and of several
\* columns.
TextDatasets ==
    {<<TextColumn(name, fa, fb, k, n, vary, nulls)>> :
        name \in {"notes", "user_id", "zip"}, fa \in Families, fb \in Fillers,
        k \in 0 .. TypeRows, n \in 1 .. TypeRows, vary \in BOOLEAN,
        nulls \in {{}, {0}}}
    \cup {<<LongColumn("notes", parity)>> : parity \in {0, 1}}

NumDatasets ==
    {<<NumColumn(name, shape, n, nulls)>> :
        name \in ColumnNames, shape \in NumShapes, n \in 1 .. TypeRows,
        nulls \in {{}, {0}, 0 .. TypeRows - 1}}

WideDatasets ==
    {<<NumColumn("user_id", "seq", n, {}),
       NumColumn("amount", sa, n, {0}),
       NumColumn("rate", "const", n, nulls),
       TextColumn("notes", fa, "plain", n - 1, n, TRUE, {})>> :
        n \in 2 .. TypeRows, sa \in {"const", "tens"},
        fa \in {"email", "date", "plain"},
        nulls \in {{}, 0 .. TypeRows - 1}}

MixedDatasets ==
    {<<NumColumn("lat", "tens", n, nulls),
       TextColumn("notes", "yesno", "plain", k, n, TRUE, {})>> :
        n \in 2 .. TypeRows, k \in {0, TypeRows},
        nulls \in {{}, {0}, 0 .. TypeRows - 1}}

\* Frames of two text columns, which may be of one type, and a numeric
\* column named as a latitude.
TwinDatasets ==
    {<<TextColumn("notes", fa, "plain", n, n, TRUE, {}),
       TextColumn("zip", fb, "plain", n, n, TRUE, {}),
       NumColumn("lat", sh, n, {})>> :
        fa \in {"iso", "email", "plain"}, fb \in {"iso", "email", "plain"},
        sh \in {"tens", "far"}, n \in {TypeRows - 1, TypeRows}}

\* A column of n True/False cells: alternating, or all True.
BoolColumn(name, n, vary) ==
    [name  |-> name,
     kind  |-> "bool",
     nulls |-> {},
     cells |-> AsSeq([i \in 1 .. n |-> ~vary \/ i % 2 = 1])]

\* Frames with columns of dtype bool next to a text column of one value, a
\* column of dates and a numeric column.
BoolDatasets ==
    {<<BoolColumn(first, n, va),
       TextColumn("zip", "plain", "plain", n, n, FALSE, nulls),
       BoolColumn("rate", n, vb),
       TextColumn("notes", fa, "plain", n, n, TRUE, {}),
       NumColumn("amount", "tens", n, nulls)>> :
        first \in {"user_id", "lat"}, n \in 1 .. TypeRows, va \in BOOLEAN,
        vb \in BOOLEAN, fa \in {"iso", "email"}, nulls \in {{}, {0}}}

TypeArgvs ==
    {<<"prog">>, <<"prog", "data.csv">>, <<"prog", "data.csv", "7">>,
     <<"prog", "data.csv", "seven">>}

\* int(sys.argv[2]); -1 when int() raises ValueError.
ParseInt(str) == IF str = "7" THEN 7 ELSE -1

InitTypes ==
    /\ runner \in {"types", "profiler", "session"}
    /\ \/ /\ targv = <<"prog", "data.csv", "7">>
          /\ \/ \E d \in TextDatasets : tfile = [readable |-> TRUE, cols |-> d]
             \/ \E d \in NumDatasets : tfile = [readable |-> TRUE, cols |-> d]
             \/ \E d \in WideDatasets : tfile = [readable |-> TRUE, cols |-> d]
             \/ \E d \in MixedDatasets : tfile = [readable |-> TRUE, cols |-> d]
             \/ \E d \in TwinDatasets : tfile = [readable |-> TRUE, cols |-> d]
             \/ /\ runner = "profiler"
                /\ \E d \in BoolDatasets : tfile = [readable |-> TRUE, cols |-> d]
       \/ /\ targv \in TypeArgvs
          /\ \E r \in BOOLEAN :
                tfile = [readable |-> r,
                         cols |-> <<NumColumn("amount", "tens", 3, {})>>]
    /\ tdf = NoDf
    /\ tpc = "start"
    /\ tstdout = <<>>
    /\ texit = -1
    /\ traceback = FALSE
    /\ tcalls = <<>>
    /\ np_state = 0
    /\ ColumnIdle
    /\ CorrIdle
    /\ InsightsIdle
    /\ SemanticIdle

\* The except block of both mains: 'dataset_id' of the error document is
\* int(sys.argv[2]) again, which, when the exception was the ValueError of
\* that very conversion, raises inside the handler: nothing is printed and
\* the interpreter ends the process with a traceback and status 1.
TypeExitWithError(message) ==
    IF Len(targv) > 2 /\ ParseInt(targv[3]) < 0
    THEN /\ traceback' = TRUE
         /\ texit' = 1
         /\ tpc' = "exited"
         /\ UNCHANGED tstdout
    ELSE /\ tstdout' = Append(tstdout,
                [error |-> message,
                 dataset_id |-> IF Len(targv) > 2 THEN ParseInt(targv[3])
                                ELSE NoneVal])
         /\ texit' = 1
         /\ tpc' = "exited"
         /\ UNCHANGED traceback

\* main() of type_detector.py and of data_profiler.py, up to load_data().
TypeMainLoad ==
    /\ runner \in {"types", "profiler"}
    /\ tpc = "start"
    /\ IF Len(targv) < 3
       THEN /\ TypeExitWithError("Missing arguments: csv_path, dataset_id")
            /\ UNCHANGED tdf
       ELSE IF ParseInt(targv[3]) < 0
       THEN /\ TypeExitWithError("invalid literal for int() with base 10")
            /\ UNCHANGED tdf
       ELSE IF ~tfile.readable
       THEN /\ TypeExitWithError("Error loading data: No such file")
            /\ UNCHANGED tdf
       ELSE /\ tdf' = [loaded |-> TRUE, cols |-> tfile.cols]
            /\ tpc' = "loaded"
            /\ UNCHANGED <<tstdout, texit, traceback>>
    /\ UNCHANGED <<runner, targv, tfile, tcalls, np_state, colVars, corrVars, insVars, semVars>>

\* type_detector.main(), from detect_all_types() to the end.
TypeMainDetect ==
    /\ runner = "types"
    /\ tpc = "loaded"
    /\ LET result == detect_all_types(tdf.cols, ParseInt(targv[3]), np_state)
       IN  IF JsonSerializable(result)
           THEN /\ tstdout' = Append(tstdout, result)
                /\ texit' = 0
                /\ tpc' = "exited"
                /\ UNCHANGED traceback
           ELSE TypeExitWithError("Object of type bool_ is not JSON serializable")
    /\ UNCHANGED <<runner, targv, tfile, tdf, tcalls, np_state, colVars, corrVars, insVars, semVars>>

\* data_profiler.main(), from generate_profile() to the end.
ProfilerMainGenerate ==
    /\ runner = "profiler"
    /\ tpc = "loaded"
    /\ tstdout' = Append(tstdout, generate_profile(tdf.cols, ParseInt(targv[3])))
    /\ texit' = 0
    /\ tpc' = "exited"
    /\ UNCHANGED <<runner, targv, tfile, tdf, traceback, tcalls, np_state,
                   colVars, corrVars, insVars, semVars>>

\* A caller's TypeDetector(csv_path, dataset_id).load_data(), which raises
\* when the file cannot be read.
SessionLoad ==
    /\ runner = "session"
    /\ tpc = "start"
    /\ IF tfile.readable
       THEN /\ tdf' = [loaded |-> TRUE, cols |-> tfile.cols]
            /\ tpc' = "loaded"
       ELSE /\ tpc' = "exited"
            /\ UNCHANGED tdf
    /\ UNCHANGED <<runner, targv, tfile, tstdout, texit, traceback, tcalls,
                   np_state, colVars, corrVars, insVars, semVars>>

\* A caller's detector.detect_column_type(column) on a column of the frame.
SessionDetect ==
    /\ runner = "session"
    /\ tpc = "loaded"
    /\ Len(tcalls) < MaxCalls
    /\ \E k \in DOMAIN tdf.cols :
          LET r == detect_column_type(tdf.cols[k], np_state)
          IN  /\ tcalls' = Append(tcalls, [column |-> k, result |-> r.result])
              /\ np_state' = r.np_state
    /\ UNCHANGED <<runner, targv, tfile, tdf, tpc, tstdout, texit, traceback,
                   colVars, corrVars, insVars, semVars>>

\* The caller draws from numpy's global generator between two calls, as
\* the methods of TestDataGenerator do (np.random.choice, randint, ...).
DrawTestData ==
    /\ runner = "session"
    /\ tpc = "loaded"
    /\ np_state < MaxCalls
    /\ np_state' = np_state + 1
    /\ UNCHANGED <<runner, targv, tfile, tdf, tpc, tstdout, texit, traceback,
                   tcalls, colVars, corrVars, insVars, semVars>>

NextTypes ==
    TypeMainLoad \/ TypeMainDetect \/ ProfilerMainGenerate \/ SessionLoad
        \/ SessionDetect \/ DrawTestData

SpecTypes == InitTypes /\ [][NextTypes]_vars

---------------------------------------------------------------------------
(* The inputs of the insights route and of the insight generator, and      *)
(* their runs.                                                             *)

\* A numeric column of the route's frames, of n rows: 0, 1, 2, ... ("ramp"),
\* 0 in the first half and 1 in the second ("step"), 0, ..., 0, 1 ("spike"),
\* 1, 1, ... ("flat").
SvcNum(name, shape, n, nulls) ==
    [name  |-> name,
     kind  |-> "numeric",
     nulls |-> nulls,
     cells |-> AsSeq([i \in 1 .. n |->
                  CASE shape = "ramp" -> i - 1
                    [] shape = "step" -> IF 2 * i > n THEN 1 ELSE 0
                    [] shape = "spike" -> IF i = n THEN 1 ELSE 0
                    [] shape = "flat" -> 1])]

SvcShapes == {"ramp", "step", "spike", "flat"}

\* A text column of n rows: identifiers, all different ("ids"), or two
\* plain texts in turn ("tags").
SvcText(name, shape, n, nulls) ==
    [name  |-> name,
     kind  |-> "text",
     nulls |-> nulls,
     cells |-> AsSeq([i \in 1 .. n |->
                  IF shape = "ids" THEN IdTexts[i]
                  ELSE Family("plain")[((i - 1) % 2) + 1]])]

\* The frames of two numeric columns, of a numeric and a text column, and
\* of many text columns that each miss their second cell.
SvcNumFrames ==
    {<<SvcNum("amount", s1, n, nulls), SvcNum("score", s2, n, {})>> :
        s1 \in SvcShapes \ {"ramp"}, s2 \in SvcShapes, n \in {2, SvcRows},
        nulls \in {{}, {1}}}
    \cup
    {<<SvcNum("amount", "ramp", n, {}), SvcNum("score", s2, n, {})>> :
        s2 \in SvcShapes, n \in {2, SvcRows}}

SvcMixedFrames ==
    {<<SvcNum("amount", s, n, {}), SvcText(name, t, n, nulls)>> :
        s \in SvcShapes, name \in {"user_id", "notes"}, t \in {"ids", "tags"},
        n \in {2, SvcRows}, nulls \in {{}, {0}}}

SvcWideFrames ==
    {AsSeq([i \in 1 .. w |-> SvcText(ToString(i), "tags", 2, {1})]) :
        w \in {3, WideCols}}

\* Long frames: a column with one outlier and perhaps a missing cell, two
\* columns that correlate, and a text column that misses three cells or
\* none.
SvcLongFrames ==
    {<<SvcNum("amount", "spike", LongRows, nulls), SvcNum("score", "ramp", LongRows, {}),
       SvcNum("rate", s3, LongRows, {}), SvcText("notes", "tags", LongRows, gaps)>> :
        nulls \in {{}, {1}}, s3 \in {"step", "flat"}, gaps \in {{}, {0, 1, 2}}}

\* The requests that end before the file is read.
SvcFailures ==
    {[found |-> f, file_exists |-> e, ext |-> x, readable |-> r,
      cols |-> <<SvcNum("amount", "ramp", 2, {})>>] :
        f, e, r \in BOOLEAN, x \in {".csv", ".txt"}}

\* A numeric column of the generator's frames, of n rows, without a missing
\* cell: 0, 0, 1, 1, 2, ... ("ramp"), 0, 1, 2, 3, 4, 0, ... ("cycle"), the
\* same with 9 in the last row ("spike"), 3, 3, ... ("flat"), the ramp
\* downwards ("fall"), the sum of the ramp and the cycle ("wave"), and
\* 0, 1, 2, ... ("line").
IgNum(name, shape, n) ==
    [name  |-> name,
     kind  |-> "numeric",
     nulls |-> {},
     cells |-> AsSeq([i \in 1 .. n |->
                  CASE shape = "ramp" -> (i - 1) \div 2
                    [] shape = "cycle" -> (i - 1) % 5
                    [] shape = "spike" -> IF i = n THEN 9 ELSE (i - 1) % 5
                    [] shape = "flat" -> 3
                    [] shape = "fall" -> (n - i) \div 2
                    [] shape = "wave" -> ((i - 1) \div 2) + ((i - 1) % 5)
                    [] shape = "line" -> i - 1])]

IgShapes == {"ramp", "cycle", "spike", "flat", "fall"}

\* A date column of n different days, from the first on or from the last.
IgDate(n, ascending) ==
    [name  |-> "date",
     kind  |-> "text",
     nulls |-> {},
     cells |-> AsSeq([i \in 1 .. n |->
                  IF ascending THEN DayTexts[i] ELSE DayTexts[n + 1 - i]])]

\* An identifier column, whose last cell repeats the first when dup.
IgIds(n, dup) ==
    [name  |-> "user_id",
     kind  |-> "text",
     nulls |-> {},
     cells |-> AsSeq([i \in 1 .. n |->
                  IF dup /\ i = n THEN IdTexts[1] ELSE IdTexts[i]])]

IgPairFrames ==
    {<<IgNum("amount", s1, n), IgNum("score", s2, n)>> :
        s1 \in IgShapes, s2 \in IgShapes, n \in {6, FrameRows}}

IgDatedFrames ==
    {<<IgNum("amount", s1, n), IgNum("score", s2, n), IgDate(n, a)>> :
        s1 \in IgShapes, s2 \in IgShapes, n \in {6, FrameRows}, a \in BOOLEAN}

\* A date column of the given name.
IgDay(name, n, ascending) == [IgDate(n, ascending) EXCEPT !.name = name]

\* Frames of events: two numeric columns, the second a ramp or a wave, and
\* four date columns.
IgEventFrames ==
    {<<IgNum("amount", "ramp", FrameRows), IgNum("score", s2, FrameRows),
       IgDay("created_at", FrameRows, TRUE), IgDay("updated_at", FrameRows, a2),
       IgDay("shipped_at", FrameRows, a3), IgDay("closed_at", FrameRows, TRUE)>> :
        s2 \in {"ramp", "wave"}, a2 \in BOOLEAN, a3 \in BOOLEAN}

\* Time series: a column that rises by one from row to row and a date
\* column.
IgLineFrames ==
    {<<IgNum("amount", "line", n), IgDate(n, a)>> :
        n \in {FrameRows, LineRows - 1, LineRows}, a \in BOOLEAN}

\* The frames of the runs in which a stage raises: every stage before it
\* has something to add.
IgFailingFrames ==
    {<<IgNum("amount", "ramp", FrameRows), IgNum("score", s2, FrameRows),
       IgDate(FrameRows, TRUE)>> : s2 \in {"spike", "fall"}}

IgIdFrames ==
    {<<IgNum("amount", s, n), IgIds(n, dup), SvcText("notes", "tags", n, nulls)>> :
        s \in IgShapes, n \in {6, FrameRows}, dup \in BOOLEAN,
        nulls \in {{}, {1, 3, 5, 7}}}

\* The command lines of the script: which options are given (--mode is
\* 'insights' when given).
IgArgs ==
    [mode : BOOLEAN, data : BOOLEAN, metadata : BOOLEAN, output : BOOLEAN]

AllArgs == [mode |-> TRUE, data |-> TRUE, metadata |-> TRUE, output |-> TRUE]

InitInsights ==
    /\ runner \in {"api", "insights", "generator"}
    /\ \/ /\ runner = "api"
          /\ \/ \E d \in SvcNumFrames :
                    sreq = [found |-> TRUE, file_exists |-> TRUE, ext |-> ".csv",
                            readable |-> TRUE, cols |-> d]
             \/ \E d \in SvcMixedFrames :
                    sreq = [found |-> TRUE, file_exists |-> TRUE, ext |-> ".csv",
                            readable |-> TRUE, cols |-> d]
             \/ \E d \in SvcWideFrames :
                    sreq = [found |-> TRUE, file_exists |-> TRUE, ext |-> ".csv",
                            readable |-> TRUE, cols |-> d]
             \/ \E d \in SvcLongFrames :
                    sreq = [found |-> TRUE, file_exists |-> TRUE, ext |-> ".csv",
                            readable |-> TRUE, cols |-> d]
             \/ sreq \in SvcFailures
          /\ iargs = [mode |-> FALSE, data |-> FALSE, metadata |-> FALSE,
                      output |-> FALSE]
          /\ ifiles = [data_readable |-> FALSE]
       \/ /\ runner \in {"insights", "generator"}
          /\ sreq = [found |-> FALSE]
          /\ \/ /\ iargs = AllArgs
                /\ \/ \E d \in IgPairFrames :
                          ifiles = [data_readable |-> TRUE, metadata_readable |-> TRUE,
                                    output_writable |-> TRUE, cols |-> d,
                                    raises |-> 0]
                   \/ \E d \in IgDatedFrames :
                          ifiles = [data_readable |-> TRUE, metadata_readable |-> TRUE,
                                    output_writable |-> TRUE, cols |-> d,
                                    raises |-> 0]
                   \/ \E d \in IgIdFrames :
                          ifiles = [data_readable |-> TRUE, metadata_readable |-> TRUE,
                                    output_writable |-> TRUE, cols |-> d,
                                    raises |-> 0]
                   \/ \E d \in IgEventFrames :
                          ifiles = [data_readable |-> TRUE, metadata_readable |-> TRUE,
                                    output_writable |-> TRUE, cols |-> d,
                                    raises |-> 0]
                   \/ \E d \in IgLineFrames :
                          ifiles = [data_readable |-> TRUE, metadata_readable |-> TRUE,
                                    output_writable |-> TRUE, cols |-> d,
                                    raises |-> 0]
             \/ /\ iargs \in IgArgs
                /\ runner = "generator" => iargs = AllArgs
                /\ \E dr, mr, ow \in BOOLEAN :
                      ifiles = [data_readable |-> dr, metadata_readable |-> mr,
                                output_writable |-> ow,
                                cols |-> <<IgNum("amount", "ramp", 6),
                                           IgNum("score", "spike", 6)>>,
                                raises |-> 0]
             \/ /\ iargs = AllArgs
                /\ \E d \in IgFailingFrames, k \in DOMAIN StageOrder :
                      ifiles = [data_readable |-> TRUE, metadata_readable |-> TRUE,
                                output_writable |-> TRUE, cols |-> d, raises |-> k]
    /\ sresp = NoResponse
    /\ generator = NoGenerator
    /\ ipc = "start"
    /\ ireturns = <<>>
    /\ istages = <<>>
    /\ ioutput = NoFile
    /\ istdout = <<>>
    /\ istderr = <<>>
    /\ iexit = -1
    /\ ColumnIdle
    /\ CorrIdle
    /\ TypesIdle
    /\ SemanticIdle

\* The route answers the request.
GetInsights ==
    /\ runner = "api"
    /\ ipc = "start"
    /\ sresp' = get_insights(sreq)
    /\ ipc' = "done"
    /\ UNCHANGED <<runner, sreq, iargs, ifiles, generator, ireturns, istages, ioutput,
                   istdout, istderr, iexit, colVars, corrVars, typeVars, semVars>>

\* What generate_insights prints: the size of the frame once both files are
\* read, or the error.
GeneratePrints(value) ==
    IF "error" \in DOMAIN value
    THEN <<"Error generating insights">>
    ELSE <<"Loaded dataset">>

\* main(), lines 866-899, in insights mode.  argparse ends the process with
\* status 2 when a required option is missing; a missing --metadata and a
\* failure to write the output are caught by the except block, which prints
\* one line on standard error and exits with 1; whatever generate_insights
\* returns is written to the output file and reported as a success.
InsightsMain ==
    /\ runner = "insights"
    /\ ipc = "start"
    /\ ipc' = "done"
    /\ IF ~(iargs.mode /\ iargs.data /\ iargs.output)
       THEN /\ istderr' = <<"usage: the following arguments are required">>
            /\ iexit' = 2
            /\ UNCHANGED <<generator, ireturns, istages, ioutput, istdout>>
       ELSE IF ~iargs.metadata
       THEN /\ istderr' = <<"Error: --metadata is required for insights mode">>
            /\ iexit' = 1
            /\ UNCHANGED <<generator, ireturns, istages, ioutput, istdout>>
       ELSE LET r == generate_insights(ifiles, NewGenerator)
            IN  /\ generator' = r.gen
                /\ ireturns' = <<r.value>>
                /\ istages' = <<r.stages>>
                /\ IF ifiles.output_writable
                   THEN /\ ioutput' = [written |-> TRUE, doc |-> r.value]
                        /\ istdout' = GeneratePrints(r.value)
                                        \o <<"Operation completed successfully">>
                        /\ iexit' = 0
                        /\ UNCHANGED istderr
                   ELSE /\ istderr' = <<"Error: Permission denied">>
                        /\ istdout' = GeneratePrints(r.value)
                        /\ iexit' = 1
                        /\ UNCHANGED ioutput
    /\ UNCHANGED <<runner, sreq, sresp, iargs, ifiles, colVars, corrVars, typeVars, semVars>>

\* A program makes an InsightGenerator.
SessionNew ==
    /\ runner = "generator"
    /\ ipc = "start"
    /\ generator' = NewGenerator
    /\ ipc' = "ready"
    /\ UNCHANGED <<runner, sreq, sresp, iargs, ifiles, ireturns, istages, ioutput, istdout,
                   istderr, iexit, colVars, corrVars, typeVars, semVars>>

\* It calls generate_insights on it, with the same two files each time.
SessionGenerate ==
    /\ runner = "generator"
    /\ ipc = "ready"
    /\ Len(ireturns) < MaxCalls
    /\ LET r == generate_insights(ifiles, generator)
       IN  /\ generator' = r.gen
           /\ ireturns' = Append(ireturns, r.value)
           /\ istages' = Append(istages, r.stages)
           /\ istdout' = istdout \o GeneratePrints(r.value)
    /\ UNCHANGED <<runner, sreq, sresp, iargs, ifiles, ipc, ioutput, istderr, iexit,
                   colVars, corrVars, typeVars, semVars>>

NextInsights == GetInsights \/ InsightsMain \/ SessionNew \/ SessionGenerate

SpecInsights == InitInsights /\ [][NextInsights]_vars

---------------------------------------------------------------------------
(* The inputs of the semantic analyzer, and its runs.                      *)

\* Column names as the input file gives them ('' when the key is absent).
SemNames ==
    {"user_id", "id", "Email", "first_name", "price", "rate", "x", "created_at",
     "lat", " State ", "total_count", "notes", "Order Date", ""}

\* The 'type' of a column ('' when the key is absent).
SemTypes == {"integer", "string", "float", "date", "boolean", ""}

\* The 'sample_values' of a column.
SemSamples ==
    {<<>>, <<NullText>>, <<"abc", "xyz">>, <<"abc", "a@b.co">>, <<"555-123-4567">>,
     <<"2024-01-15", "abc">>, <<"http://x.io">>, <<"$5.00">>,
     <<"Jan 15, 2024", "Feb 20, 2024", "10:30", "11:45", "abc", "abc">>,
     <<"abc", "Jan 15, 2024">>, <<"45", NullText>>, <<"120">>, <<"200", "45">>}

SemColumns == [name : SemNames, type : SemTypes, sample_values : SemSamples]

\* The 'columns' of the input file: one column, or one of a few lists.
SemInputs ==
    {<<c>> : c \in SemColumns}
    \cup {<<>>,
          <<[name |-> "user_id", type |-> "integer", sample_values |-> <<"45">>],
            [name |-> "x", type |-> "string", sample_values |-> <<"abc">>],
            [name |-> "lat", type |-> "float", sample_values |-> <<"45">>]>>}

\* The command lines of the script: which of --input and --output are given.
SemArgs == [input : BOOLEAN, output : BOOLEAN]

InitSemantic ==
    /\ runner \in {"semantic", "analyzer"}
    /\ \/ /\ aargs = [input |-> TRUE, output |-> TRUE]
          /\ \E cs \in SemInputs, np \in BOOLEAN :
                ainput = [readable |-> TRUE, output_writable |-> TRUE,
                          columns |-> cs, numbers_parse |-> np]
       \/ /\ runner = "semantic"
          /\ aargs \in SemArgs
          /\ \E r, w \in BOOLEAN :
                ainput = [readable |-> r, output_writable |-> w,
                          columns |-> <<[name |-> "price", type |-> "float",
                                         sample_values |-> <<"$5.00">>]>>,
                          numbers_parse |-> FALSE]
    /\ apc = "start"
    /\ areturns = <<>>
    /\ aoutput = NoFile
    /\ astdout = <<>>
    /\ astderr = <<>>
    /\ aexit = -1
    /\ ColumnIdle
    /\ CorrIdle
    /\ TypesIdle
    /\ InsightsIdle

\* main() of semantic_analyzer.py.  argparse ends the process with status 2
\* when --input or --output is missing; a file that cannot be read or
\* written is caught by the except block, which prints one line on standard
\* error and exits with 1 ('dataset_id' and 'timestamp' of the output are
\* left out).
SemanticMain ==
    /\ runner = "semantic"
    /\ apc = "start"
    /\ apc' = "done"
    /\ IF ~(aargs.input /\ aargs.output)
       THEN /\ astderr' = <<"usage: the following arguments are required">>
            /\ aexit' = 2
            /\ UNCHANGED <<aoutput, astdout>>
       ELSE IF ~ainput.readable
       THEN /\ astderr' = <<"Error: No such file or directory">>
            /\ aexit' = 1
            /\ UNCHANGED <<aoutput, astdout>>
       ELSE IF ~ainput.output_writable
       THEN /\ astderr' = <<"Error: Permission denied">>
            /\ aexit' = 1
            /\ UNCHANGED <<aoutput, astdout>>
       ELSE /\ aoutput' = [written |-> TRUE,
                           doc |-> [classifications |->
                                       classifications(ainput.columns,
                                                       ainput.numbers_parse)]]
            /\ astdout' = <<"Semantic analysis completed">>
            /\ aexit' = 0
            /\ UNCHANGED astderr
    /\ UNCHANGED <<runner, aargs, ainput, areturns, colVars, corrVars, typeVars,
                   insVars>>

\* A program makes a SemanticColumnAnalyzer.
AnalyzerNew ==
    /\ runner = "analyzer"
    /\ apc = "start"
    /\ apc' = "ready"
    /\ UNCHANGED <<runner, aargs, ainput, areturns, aoutput, astdout, astderr,
                   aexit, colVars, corrVars, typeVars, insVars>>

\* It calls classify_column on a column of the input.
AnalyzerClassify ==
    /\ runner = "analyzer"
    /\ apc = "ready"
    /\ Len(areturns) < MaxCalls
    /\ \E k \in DOMAIN ainput.columns :
          areturns' = Append(areturns,
              [call |-> "classify_column", column |-> k,
               result |-> classify_column(ainput.columns[k], ainput.numbers_parse)])
    /\ UNCHANGED <<runner, aargs, ainput, apc, aoutput, astdout, astderr, aexit,
                   colVars, corrVars, typeVars, insVars>>

\* It calls analyze_column_name with the name and the type of a column of
\* the input.
AnalyzerName ==
    /\ runner = "analyzer"
    /\ apc = "ready"
    /\ Len(areturns) < MaxCalls
    /\ \E k \in DOMAIN ainput.columns :
          areturns' = Append(areturns,
              [call |-> "analyze_column_name", column |-> k,
               result |-> analyze_column_name(ainput.columns[k].name,
                                              ainput.columns[k].type)])
    /\ UNCHANGED <<runner, aargs, ainput, apc, aoutput, astdout, astderr, aexit,
                   colVars, corrVars, typeVars, insVars>>

NextSemantic == SemanticMain \/ AnalyzerNew \/ AnalyzerClassify \/ AnalyzerName

SpecSemantic == InitSemantic /\ [][NextSemantic]_vars

---------------------------------------------------------------------------
(* Properties of the anomaly and trend runners, checked under SpecColumn.  *)

\* main() of the anomaly runner printed a result document.
HasAnomalyResult == runner = "anomaly" /\ pc = "exited" /\ exit_status = 0

AnomalyResult == stdout[Len(stdout)]

\* The labels each detector returned in the run (read from detected).
FlaggedBy(method) ==
    CASE method = "z-score" -> Range(detected.statistical.indices)
      [] method = "iqr" -> Range(detected.iqr.indices)
      [] method = "isolation_forest" -> Range(detected.isolation_forest.indices)

MethodNames == {"z-score", "iqr", "isolation_forest"}

\* The number of detectors that flagged label l.
FlagCount(l) == Cardinality({m \in MethodNames : l \in FlaggedBy(m)})

FlaggedUnion == UNION {FlaggedBy(m) : m \in MethodNames}

\* The value the loaded column holds at row label l.
CellAt(l) == df.col.cells[l + 1]

NonNullCount(col) == Len(col.cells) - Cardinality(col.nulls \cap Labels(col))

\* C1: in every result of detect_anomalies each anomaly names, without
\* repetition, exactly the detectors whose flagged set holds its index, at
\* least one of them, and its confidence is that number over 3.
C1_MethodsAndConfidence ==
    HasAnomalyResult =>
        \A k \in DOMAIN AnomalyResult.anomalies :
            LET a == AnomalyResult.anomalies[k]
                named == Range(a.methods_detected)
            IN  /\ a.methods_detected # <<>>
                /\ Len(a.methods_detected) = Cardinality(named)
                /\ named = {m \in MethodNames : a.index \in FlaggedBy(m)}
                /\ a.confidence = <<Cardinality(named), 3>>
                /\ Cardinality(named) \in {1, 2, 3}

\* C1 witness: a result with anomalies of confidence 1/3, 2/3 and 3/3.
C1_Witness ==
    /\ HasAnomalyResult
    /\ \A c \in {1, 2, 3} :
          \E k \in DOMAIN AnomalyResult.anomalies :
              AnomalyResult.anomalies[k].confidence = <<c, 3>>

\* C2: the anomalies list is ordered by non-increasing confidence, records
\* of equal confidence by ascending index, and it is the first 50 of that
\* ordering of the union of the flagged labels: no more than 50 records,
\* all of them when the union has at most 50, and no label left out that
\* would come before a listed one.
C2_SortedTop50 ==
    HasAnomalyResult =>
        LET an == AnomalyResult.anomalies
            listed == {an[k].index : k \in DOMAIN an}
            Before(c1, i1, c2, i2) == c1 > c2 \/ (c1 = c2 /\ i1 < i2)
        IN  /\ \A i, j \in DOMAIN an :
                  i < j => Before(an[i].confidence[1], an[i].index,
                                  an[j].confidence[1], an[j].index)
            /\ \A k \in DOMAIN an : an[k].confidence[1] = FlagCount(an[k].index)
            /\ listed \subseteq FlaggedUnion
            /\ Len(an) = IF Cardinality(FlaggedUnion) < 50
                         THEN Cardinality(FlaggedUnion) ELSE 50
            /\ \A u \in FlaggedUnion \ listed : \A k \in DOMAIN an :
                  Before(an[k].confidence[1], an[k].index, FlagCount(u), u)

\* C2 witness: more than 50 labels were flagged, with different
\* confidences, and the sort moved a later row in front of an earlier one.
C2_Witness ==
    /\ HasAnomalyResult
    /\ Cardinality(FlaggedUnion) > 50
    /\ \E i, j \in DOMAIN AnomalyResult.anomalies :
          /\ i < j
          /\ AnomalyResult.anomalies[i].index > AnomalyResult.anomalies[j].index
          /\ AnomalyResult.anomalies[i].confidence[1]
                > AnomalyResult.anomalies[j].confidence[1]

\* C3, as claimed: every anomaly's value is the value of the column at the
\* row its index names.
C3_ValueIsCellAtIndex ==
    HasAnomalyResult =>
        \A k \in DOMAIN AnomalyResult.anomalies :
            AnomalyResult.anomalies[k].value
                = CellAt(AnomalyResult.anomalies[k].index)

\* The summary block the result gives for a detector.
SummaryOf(method) ==
    CASE method = "z-score" -> AnomalyResult.methods.statistical
      [] method = "iqr" -> AnomalyResult.methods.iqr
      [] method = "isolation_forest" -> AnomalyResult.methods.isolation_forest

\* C4, as claimed: when a detector failed inside detect_anomalies, a result
\* is still returned, the failed detector's summary holds an error message
\* and a count of 0, and each other detector's count is that of its flags.
C4_DetectorFailureIsolated ==
    (runner = "anomaly" /\ pc = "exited" /\ detected.ran /\ detected.failed # {})
    => /\ exit_status = 0
       /\ \A m \in detected.failed :
             /\ "error" \in DOMAIN SummaryOf(m)
             /\ SummaryOf(m).count = 0
             /\ FlaggedBy(m) = {}
       /\ \A m \in MethodNames \ detected.failed :
             /\ "error" \notin DOMAIN SummaryOf(m)
             /\ SummaryOf(m).count = Cardinality(FlaggedBy(m))

\* The run reached detect_anomalies / detect_trend with a column of fewer
\* non-null values than the analysis needs.
InsufficientData ==
    /\ runner \in {"anomaly", "trend"}
    /\ pc = "exited"
    /\ df # NoDf
    /\ argv[3] = df.name
    /\ NonNullCount(df.col) < (IF runner = "anomaly" THEN 10 ELSE 3)

\* C5: with fewer than 10 (anomaly) or 3 (trend) non-null values the runner
\* prints exactly one document, an error document that echoes the column
\* name and holds no result record, and exits with status 1.
C5_InsufficientDataIsError ==
    InsufficientData =>
        /\ exit_status = 1
        /\ Len(stdout) = 1
        /\ stdout[1].column = argv[3]
        /\ IF runner = "anomaly"
           THEN /\ DOMAIN stdout[1] = {"error", "column", "anomalies"}
                /\ stdout[1].anomalies = <<>>
                /\ stdout[1].error = "Not enough data points for anomaly detection"
           ELSE /\ DOMAIN stdout[1] = {"error", "column"}
                /\ stdout[1].error = "Not enough data points for trend analysis"

\* C5 witness: a trend run that ended on a column with exactly two non-null
\* values.
C5_Witness ==
    /\ InsufficientData
    /\ runner = "trend"
    /\ NonNullCount(df.col) = 2

\* The non-null values of the loaded column have standard deviation 0.
StdIsZero ==
    LET live == {l \in Labels(df.col) : l \notin df.col.nulls}
    IN  \A a, b \in live : CellAt(a) = CellAt(b)

\* C6: when the column's standard deviation is 0, the z-score detector
\* returns no index, reports a count of 0 and never made the division.
C6_ZeroStdNoAnomalies ==
    (runner = "anomaly" /\ pc = "exited" /\ detected.ran
        /\ "statistical" \in DOMAIN detected /\ StdIsZero)
    => /\ detected.statistical.indices = <<>>
       /\ detected.statistical.summary.count = 0
       /\ ~detected.statistical.divided_by_zero

\* C6 witness: the detector ran on a constant column of at least 10 values,
\* and the run returned a result.
C6_Witness ==
    /\ HasAnomalyResult
    /\ detected.ran
    /\ StdIsZero
    /\ AnomalyResult.total_data_points >= 10
    /\ AnomalyResult.methods.statistical.count = 0

\* main() of the trend runner printed a result document.
HasTrendResult == runner = "trend" /\ pc = "exited" /\ exit_status = 0

TrendResult == stdout[Len(stdout)]

\* The trend runner went through detect_trend on the column it was asked for.
TrendAnalysed ==
    runner = "trend" /\ pc = "exited" /\ df # NoDf /\ argv[3] = df.name

\* The non-null values of the loaded column, in row order.
LiveValues == dropna(df.col).values

\* The loaded column is numeric and its k-th value (k from 0) is 2 k, on at
\* least 3 points.
PerfectlyLinear ==
    /\ df.col.kind = "numeric"
    /\ Len(LiveValues) >= 3
    /\ \A k \in DOMAIN LiveValues : LiveValues[k] = 2 * (k - 1)

\* C15, as claimed: for a column that is y = 2 x on at least 3 points,
\* detect_trend returns a record with r_squared = 1, direction
\* "increasing" and is_significant = true.
C15_PerfectLineIsSignificant ==
    (TrendAnalysed /\ PerfectlyLinear)
    => /\ exit_status = 0
       /\ TrendResult.r_squared[1] = TrendResult.r_squared[2]
       /\ TrendResult.direction = "increasing"
       /\ TrendResult.is_significant

\* The interior positions whose two windows pass the p < 0.01 test.
PassingPositions ==
    {i \in ChangeWindow .. Len(LiveValues) - ChangeWindow - 1 :
        ChangeSignificant(TTestInd(LiveValues, i))}

\* C16, as claimed: at most 5 changepoints are returned, each a position
\* that passed the test, and when more than 5 positions passed, no position
\* left out is more significant than a returned one.
C16_TopFiveChangepoints ==
    HasTrendResult =>
        LET cps == TrendResult.changepoints
            returned == {cps[k].index : k \in DOMAIN cps}
        IN  /\ Len(cps) <= 5
            /\ Len(LiveValues) >= 10 => returned \subseteq PassingPositions
            /\ (Len(LiveValues) >= 10 /\ Cardinality(PassingPositions) > 5)
               => \A i \in returned : \A j \in PassingPositions \ returned :
                     ~MoreSignificant(TTestInd(LiveValues, j),
                                      TTestInd(LiveValues, i))

---------------------------------------------------------------------------
(* Properties of the correlation runner, checked under SpecCorr.           *)

\* correlation main() printed the return value of analyze_correlations.
HasCorrResult == runner = "correlation" /\ cpc = "exited" /\ cexit = 0

CorrResult == cstdout[Len(cstdout)]

\* analyze_correlations was called (it returned or raised).
CorrAnalysed == runner = "correlation" /\ cpc = "exited" /\ cdf # NoDf

\* The positions of the numeric columns of the loaded dataset.
NumericPositions == {i \in DOMAIN cdf.cols : cdf.cols[i].kind = "numeric"}

\* The rows at which columns i and j both hold a value.
JointRows(i, j) ==
    {l \in Labels(cdf.cols[i]) : l \notin cdf.cols[i].nulls
                                 /\ l \notin cdf.cols[j].nulls}

JointValues(i, j) == ValuesAt(cdf.cols[i], SortedSeq(JointRows(i, j)))

\* |Pearson r| >= threshold or |Spearman rho| >= threshold on the joint rows.
AboveThreshold(i, j) ==
    \/ AbsGE(pearsonr(JointValues(i, j), JointValues(j, i)), Threshold10)
    \/ AbsGE(spearmanr(JointValues(i, j), JointValues(j, i)), Threshold10)

\* A record for the pair of columns i, j was materialized in the run.
HasRecord(i, j) ==
    \E k \in DOMAIN retained :
        /\ retained[k].column1 = cdf.cols[i].name
        /\ retained[k].column2 = cdf.cols[j].name

\* C7, as claimed: once analyze_correlations has run, a pair with at least
\* 3 joint observations has a record exactly when |r| or |rho| reaches the
\* threshold, and a pair with fewer has none.
C7_RecordIffAboveThreshold ==
    CorrAnalysed =>
        \A i, j \in NumericPositions :
            i < j =>
                IF Cardinality(JointRows(i, j)) >= 3
                THEN HasRecord(i, j) <=> AboveThreshold(i, j)
                ELSE ~HasRecord(i, j)

\* The records of the retained pairs, read from the dataset pair by pair.
KeptRecords ==
    LET nc == NumericCols(cdf.cols)
    IN  {AnalyzePair(cdf.cols, i, j, Threshold10).rec :
            <<i, j>> \in {p \in Range(nc) \X Range(nc) :
                            /\ p[1] < p[2]
                            /\ AnalyzePair(cdf.cols, p[1], p[2], Threshold10).what = "keep"}}

\* The document is a full result (not the early return for fewer than two
\* numeric columns).
HasCorrList == HasCorrResult /\ "total_correlations" \in DOMAIN CorrResult

\* C8: the correlations list is ordered by non-increasing |Pearson r|, holds
\* at most 20 records, each a retained pair, all of them when at most 20
\* were retained, and no retained pair left out has a larger |r| than a
\* listed one.
C8_SortedTop20 ==
    HasCorrList =>
        LET cs == CorrResult.correlations
        IN  /\ \A i, j \in DOMAIN cs :
                  i < j => ~AbsGt(cs[j].pearson_correlation, cs[i].pearson_correlation)
            /\ Len(cs) <= 20
            /\ Len(cs) = Cardinality(Range(cs))
            /\ Range(cs) \subseteq KeptRecords
            /\ Len(cs) = IF Cardinality(KeptRecords) < 20
                         THEN Cardinality(KeptRecords) ELSE 20
            /\ \A r \in KeptRecords \ Range(cs) : \A k \in DOMAIN cs :
                  ~AbsGt(r.pearson_correlation, cs[k].pearson_correlation)

\* C8 witness: more than 20 pairs were retained, a negative correlation is
\* listed in front of a weaker positive one, and a pair was cut.
C8_Witness ==
    /\ HasCorrList
    /\ Cardinality(KeptRecords) > 20
    /\ \E i, j \in DOMAIN CorrResult.correlations :
          /\ i < j
          /\ CorrResult.correlations[i].pearson_correlation.cov < 0
          /\ CorrResult.correlations[j].pearson_correlation.cov > 0
          /\ AbsGt(CorrResult.correlations[i].pearson_correlation,
                   CorrResult.correlations[j].pearson_correlation)

\* The dataset has exactly two columns, numeric, without missing cells,
\* equal on every row, not constant, of at least 3 rows; threshold 0.7.
TwoEqualColumns ==
    /\ Len(cdf.cols) = 2
    /\ \A i \in {1, 2} : cdf.cols[i].kind = "numeric" /\ cdf.cols[i].nulls = {}
    /\ cdf.cols[1].cells = cdf.cols[2].cells
    /\ Len(cdf.cols[1].cells) >= 3
    /\ \E a, b \in DOMAIN cdf.cols[1].cells : cdf.cols[1].cells[a] # cdf.cols[1].cells[b]
    /\ Threshold10 = 7

\* C9, as claimed: for two columns with y = x the analyzer returns exactly
\* one record, positive and very strong.
C9_IdenticalColumnsOneRecord ==
    (CorrAnalysed /\ TwoEqualColumns)
    => /\ cexit = 0
       /\ "total_correlations" \in DOMAIN CorrResult
       /\ Len(CorrResult.correlations) = 1
       /\ CorrResult.correlations[1].correlation_type = "positive"
       /\ CorrResult.correlations[1].strength = "very strong"

\* C10, as claimed: every successful result holds the four fields.
C10_ResultHasFourFields ==
    HasCorrResult =>
        {"total_correlations", "strong_correlations", "correlations",
         "numeric_columns"} \subseteq DOMAIN CorrResult

---------------------------------------------------------------------------
(* Properties of both result documents, checked under SpecRunners.         *)

\* The smaller of two numbers.
Least(a, b) == IF a < b THEN a ELSE b

\* C30: the totals of both results count what was found before the lists
\* are cut: total_anomalies is the number of labels in the union of the
\* flagged sets and anomaly_percentage is 100 times that over the number
\* of data points, while the list holds min(50, total_anomalies) records;
\* total_correlations is the number of retained pairs and
\* strong_correlations the number of them that are strong or very strong,
\* no more than total_correlations, while the list holds
\* min(20, total_correlations) records.
C30_TotalsBeforeTruncation ==
    /\ HasAnomalyResult =>
          /\ AnomalyResult.total_anomalies = Cardinality(FlaggedUnion)
          /\ AnomalyResult.anomaly_percentage
                = <<100 * Cardinality(FlaggedUnion), NonNullCount(df.col)>>
          /\ Len(AnomalyResult.anomalies)
                = Least(50, AnomalyResult.total_anomalies)
    /\ HasCorrList =>
          /\ CorrResult.total_correlations = Len(retained)
          /\ CorrResult.total_correlations = Cardinality(KeptRecords)
          /\ CorrResult.strong_correlations
                = Cardinality({r \in KeptRecords :
                                 r.strength \in {"very strong", "strong"}})
          /\ CorrResult.strong_correlations <= CorrResult.total_correlations
          /\ Len(CorrResult.correlations)
                = Least(20, CorrResult.total_correlations)

\* An anomaly result whose list was cut at 50.
C30_Witness ==
    /\ HasAnomalyResult
    /\ AnomalyResult.total_anomalies > 50
    /\ Len(AnomalyResult.anomalies) = 50

---------------------------------------------------------------------------
(* Properties of the type detector and the profiler, checked under         *)
(* SpecTypes.                                                              *)

\* The sample detect_column_type takes of a column that has a value.
SampleOf(col) ==
    LET live == dropna(col).values
    IN  sample(live, IF Len(live) < SampleCap THEN Len(live) ELSE SampleCap,
               SampleSeed, 0).cells

\* The position of a type name in the order of type_detectors, 0 for a name
\* that is not in it.
OrderOf(type_name) ==
    IF \E p \in DOMAIN type_detectors : type_detectors[p] = type_name
    THEN CHOOSE p \in DOMAIN type_detectors : type_detectors[p] = type_name
    ELSE 0

\* The result r given for the column col is that of the first detector, in
\* the order id, email, url, phone, ip_address, currency, percentage, date,
\* datetime, time, boolean, uuid, zip_code, credit_card, latitude,
\* longitude, numeric, categorical, text, that matches the column.
IsFirstMatch(col, r) ==
    LET p == OrderOf(r.detected_type)
    IN  /\ r.detected_type # "unknown"
        /\ p > 0
        /\ Detector(type_detectors[p], col, SampleOf(col)).is_type
        /\ \A q \in 1 .. p - 1 :
              ~Detector(type_detectors[q], col, SampleOf(col)).is_type

\* The type detector printed a result document.
HasTypeResult ==
    runner = "types" /\ Len(tstdout) > 0 /\ "columns" \in DOMAIN tstdout[1]

\* C11: detect_column_type gives a column that has a value the type of the
\* first detector of the fixed order that matches it, and never 'unknown',
\* in every call made on a TypeDetector and for every column of a printed
\* result.
C11_FirstMatchingDetectorWins ==
    /\ \A c \in DOMAIN tcalls :
          LET col == tdf.cols[tcalls[c].column]
          IN  ~AllNull(col) => IsFirstMatch(col, tcalls[c].result)
    /\ HasTypeResult =>
          \A k \in DOMAIN tdf.cols :
              ~AllNull(tdf.cols[k]) =>
                  IsFirstMatch(tdf.cols[k], tstdout[1].columns[k].result)

\* A call on a column that the email detector, the categorical detector and
\* the text fallback all match, classified 'email'.
C11_Witness ==
    /\ Len(tcalls) > 0
    /\ LET col == tdf.cols[tcalls[1].column]
       IN  /\ ~AllNull(col)
           /\ tcalls[1].result.detected_type = "email"
           /\ is_categorical_column(col, SampleOf(col)).is_type

\* The patterns a detector matches against the sample.
DetectorPatterns(type_name) ==
    CASE type_name = "email" -> {"email"}
      [] type_name = "url" -> {"url"}
      [] type_name = "phone" -> {"phone_us", "phone_intl"}
      [] type_name = "ip_address" -> {"ipv4"}
      [] type_name = "time" -> {"time"}
      [] type_name = "uuid" -> {"uuid"}
      [] type_name = "credit_card" -> {"credit_card"}

\* At least 80% of the sample of the column matches a pattern of the
\* detector, 80% itself included.
MatchesAtLeast80(type_name, col) ==
    \E pattern \in DetectorPatterns(type_name) :
        10 * MatchCount(col, SampleOf(col), pattern) >= 8 * Len(SampleOf(col))

\* At least 80% of the sample of the column is read as a date, and no cell
\* of it has a time of day.
DatesAtLeast80(col) ==
    /\ 10 * ParsedCount(col, SampleOf(col)) >= 8 * Len(SampleOf(col))
    /\ \A k \in DOMAIN SampleOf(col) :
          SampleOf(col)[k] \notin DateTimeTexts \cup TimeTexts

\* No detector before the date detector matches the column.
NoneBeforeDate(col) ==
    \A q \in 1 .. OrderOf("date") - 1 :
        ~Detector(type_detectors[q], col, SampleOf(col)).is_type

\* C12: on every column on which detect_column_type was called, a regex
\* detector whose pattern matches at least 80% of the sample (80% included)
\* reports a match, the date detector reports a match when at least 80% of
\* the sample is a date without time, and a text column of that kind that
\* no earlier detector matches is classified 'date'.
C12_EightyPercentMatches ==
    \A c \in DOMAIN tcalls :
        LET col == tdf.cols[tcalls[c].column]
        IN  ~AllNull(col) =>
              /\ \A type_name \in {"email", "url", "phone", "ip_address",
                                   "time", "uuid", "credit_card"} :
                    MatchesAtLeast80(type_name, col) =>
                        Detector(type_name, col, SampleOf(col)).is_type
              /\ DatesAtLeast80(col) =>
                    is_date_column(col, SampleOf(col)).is_type
              /\ (col.kind = "text" /\ DatesAtLeast80(col) /\ NoneBeforeDate(col)) =>
                    tcalls[c].result.detected_type = "date"

\* C14: two calls of detect_column_type on the same column of the same
\* TypeDetector give the same detected_type and the same confidence,
\* whatever was drawn from numpy's global generator in between.
C14_RepeatedCallsAgree ==
    \A i, j \in DOMAIN tcalls :
        tcalls[i].column = tcalls[j].column =>
            /\ tcalls[i].result.detected_type = tcalls[j].result.detected_type
            /\ tcalls[i].result.metadata.confidence
                  = tcalls[j].result.metadata.confidence

\* Two calls on a column longer than the sample, which therefore leaves a
\* row out, the global generator having been used meanwhile.
C14_Witness ==
    /\ Len(tcalls) = 2
    /\ tcalls[1].column = tcalls[2].column
    /\ Len(dropna(tdf.cols[tcalls[1].column]).values) > SampleCap
    /\ np_state > 0

\* The profiler printed a profile.
HasProfile ==
    runner = "profiler" /\ Len(tstdout) > 0 /\ "column_types" \in DOMAIN tstdout[1]

\* The analysis blocks a profile holds for the column of the given name.
BlocksOf(profile, analysis, name) ==
    {profile[analysis][b].block :
        b \in {i \in DOMAIN profile[analysis] : profile[analysis][i].name = name}}

\* The type detector's result r for an all-null column: 'empty', 100% null,
\* no statistics block.
EmptyResult(r) ==
    /\ r.detected_type = "empty"
    /\ r.null_percentage[1] = 100 * r.null_percentage[2]
    /\ "statistics" \notin DOMAIN r

\* C13: for a column whose values are all null, the type detector returns
\* 'empty' with null_percentage 100 and no statistics block, and the
\* profiler types it 'empty', reports a null_percentage of 100 for it and
\* attaches no numeric analysis block to it.
C13_AllNullColumnIsEmpty ==
    /\ \A c \in DOMAIN tcalls :
          AllNull(tdf.cols[tcalls[c].column]) => EmptyResult(tcalls[c].result)
    /\ HasTypeResult =>
          \A k \in DOMAIN tdf.cols :
              AllNull(tdf.cols[k]) => EmptyResult(tstdout[1].columns[k].result)
    /\ HasProfile =>
          \A k \in DOMAIN tdf.cols :
              AllNull(tdf.cols[k]) =>
                  /\ tstdout[1].column_types[k].type = "empty"
                  /\ BlocksOf(tstdout[1], "numeric_analysis", tdf.cols[k].name) = {}
                  /\ \E analysis \in {"numeric_analysis", "categorical_analysis",
                                       "date_analysis"} :
                        \E b \in BlocksOf(tstdout[1], analysis, tdf.cols[k].name) :
                            b.null_percentage[1] = 100 * b.null_percentage[2]

\* The statistics of analyze_numeric_columns fail for the column.
StatisticsFail(col) == profiler_column_type(col) = "numeric" /\ quantile_raises(col)

\* The columns whose statistics do not fail.
Sound(cols) == SelectSeq(cols, LAMBDA c : ~StatisticsFail(c))

\* The blocks of an analysis that are not error stubs.
WithoutStubs(analysis) ==
    SelectSeq(analysis, LAMBDA b : "error" \notin DOMAIN b.block)

\* C21: when the statistics of a column fail in the profiler, the run still
\* prints a profile and ends with status 0, the column's entry of
\* numeric_analysis is a stub with the single key 'error', and the other
\* blocks of the three analyses are those the same frame gives without the
\* failing columns.
C21_ColumnFailureIsolated ==
    (/\ runner = "profiler"
     /\ tpc = "exited"
     /\ tdf # NoDf
     /\ \E k \in DOMAIN tdf.cols : StatisticsFail(tdf.cols[k])) =>
        /\ HasProfile
        /\ texit = 0
        /\ \A k \in DOMAIN tdf.cols :
              StatisticsFail(tdf.cols[k]) =>
                  \E b \in BlocksOf(tstdout[1], "numeric_analysis", tdf.cols[k].name) :
                      DOMAIN b = {"error"}
        /\ \A analysis \in {"numeric", "categorical", "date"} :
              LET key == CASE analysis = "numeric" -> "numeric_analysis"
                           [] analysis = "categorical" -> "categorical_analysis"
                           [] analysis = "date" -> "date_analysis"
              IN  WithoutStubs(tstdout[1][key])
                    = Analysis(Sound(tdf.cols), detect_column_types(Sound(tdf.cols)),
                               analysis)

\* A profile was printed for a frame with a failing column, a categorical
\* column and a date column.
C21_Witness ==
    /\ HasProfile
    /\ \E k \in DOMAIN tdf.cols : StatisticsFail(tdf.cols[k])
    /\ Len(tstdout[1].categorical_analysis) > 0
    /\ Len(tstdout[1].date_analysis) > 1
    /\ texit = 0

\* The names a detected_type can have: those of the detectors, 'empty'
\* for a column without a value and 'unknown' when no detector matches.
TypeNames == type_detectors \o <<"empty", "unknown">>

\* The document doc of detect_all_types agrees with the columns cols: one
\* entry per column, in 'columns', with one of the type names; the counts
\* of 'type_distribution' are those of the entries and add up to
\* 'total_columns', the number of columns; 'has_dates' and 'has_geo' tell
\* whether an entry is typed date or datetime, latitude or longitude.
SummaryAgrees(cols, doc) ==
    LET typed(ts) == \E k \in DOMAIN doc.columns :
                        doc.columns[k].result.detected_type \in ts
        dist == doc.summary.type_distribution
    IN  /\ Len(doc.columns) = Len(cols)
        /\ \A k \in DOMAIN cols :
              /\ doc.columns[k].name = cols[k].name
              /\ \E i \in DOMAIN TypeNames :
                    doc.columns[k].result.detected_type = TypeNames[i]
              /\ \A j \in DOMAIN cols : cols[j].name = cols[k].name => j = k
        /\ doc.total_columns = Len(cols)
        /\ doc.summary.total_columns = Len(cols)
        /\ \A t \in DOMAIN dist :
              dist[t] = Cardinality({k \in DOMAIN doc.columns :
                            doc.columns[k].result.detected_type = t})
        /\ SumSeq([i \in DOMAIN TypeNames |->
                      IF TypeNames[i] \in DOMAIN dist THEN dist[TypeNames[i]]
                      ELSE 0]) = Len(cols)
        /\ doc.summary.has_dates <=> typed({"date", "datetime"})
        /\ doc.summary.has_geo <=> typed({"latitude", "longitude"})

\* C29: what detect_all_types returns on a loaded frame, printed or not,
\* has one entry per column with one detected type, a type distribution
\* whose counts add up to the number of columns, has_dates exactly when a
\* column is typed date or datetime and has_geo exactly when a column is
\* typed latitude or longitude.
C29_SummaryAgreesWithColumns ==
    /\ (runner = "types" /\ tpc = "loaded") =>
          SummaryAgrees(tdf.cols,
                        detect_all_types(tdf.cols, ParseInt(targv[3]), np_state))
    /\ runner = "types" =>
          \A k \in DOMAIN tstdout :
              "columns" \in DOMAIN tstdout[k] => SummaryAgrees(tdf.cols, tstdout[k])

\* A result of three columns was printed in which a type counts twice and
\* a column is typed date.
C29_Witness ==
    /\ runner = "types"
    /\ Len(tstdout) = 1
    /\ "columns" \in DOMAIN tstdout[1]
    /\ Len(tstdout[1].columns) = 3
    /\ tstdout[1].summary.has_dates
    /\ ~tstdout[1].summary.has_geo
    /\ \E t \in DOMAIN tstdout[1].summary.type_distribution :
          tstdout[1].summary.type_distribution[t] > 1

---------------------------------------------------------------------------
(* Properties of the insights route and of the insight generator, checked  *)
(* under SpecInsights.                                                     *)

\* a >= b, of two non-negative numbers held by their squares.
ConfidenceGE(a, b) == a[1] * b[2] >= b[1] * a[2]

\* The list is in non-increasing order of the field.
SortedBy(insights, field) ==
    \A i, j \in DOMAIN insights :
        i < j => ConfidenceGE(insights[i][field], insights[j][field])

\* The documents generate_insights returned that are not error documents.
Compiled == {c \in DOMAIN ireturns : "insights" \in DOMAIN ireturns[c]}

\* C17: the list of insights an aggregator returns has at most 20 entries,
\* whatever the dataset (30 columns with a missing cell included), and the
\* list of the insights route is in non-increasing order of confidence, or
\* of importance.
C17_TopKSortedInsights ==
    /\ sresp.status = 200 =>
          /\ Len(sresp.data) <= 20
          /\ \/ SortedBy(sresp.data, "confidence")
             \/ SortedBy(sresp.data, "importance")
    /\ \A c \in Compiled : Len(ireturns[c].insights) <= 20

\* C18: in the list compile_final_insights returns, an insight of higher
\* priority (high 3, medium 2, low 1) comes before one of lower priority,
\* and of two insights of equal priority the one of higher confidence
\* comes first.
C18_PriorityThenConfidence ==
    \A c \in Compiled :
        \A i, j \in DOMAIN ireturns[c].insights :
            LET a == ireturns[c].insights[i]
                b == ireturns[c].insights[j]
            IN  i < j =>
                  /\ priority_order(a.priority) >= priority_order(b.priority)
                  /\ priority_order(a.priority) = priority_order(b.priority) =>
                        /\ "confidence" \in DOMAIN a
                        /\ "confidence" \in DOMAIN b
                        /\ ConfidenceGE(a.confidence, b.confidence)

\* C19: a second call of generate_insights on the same instance, with the
\* same files, returns the same insights, outliers, trends and
\* feature_importance as the first.
C19_SecondCallSameResult ==
    (Len(ireturns) >= 2 /\ 1 \in Compiled /\ 2 \in Compiled) =>
        \A list \in {"insights", "outliers", "trends", "feature_importance"} :
            ireturns[2][list] = ireturns[1][list]

\* Loading fails, or the run cannot start its analysis: the command line is
\* accepted by argparse and --metadata is missing or a file cannot be read.
InsightsRunFails ==
    /\ runner = "insights"
    /\ iargs.mode /\ iargs.data /\ iargs.output
    /\ ~(iargs.metadata /\ ifiles.data_readable /\ ifiles.metadata_readable)

\* C20: a runner that fails emits a JSON document with an 'error' field
\* and exits with status 1; it neither exits with 0 nor ends by an
\* exception nobody caught.  The insight generator emits its document in
\* the output file; the other runners print theirs.
C20_ErrorsExitWithStatusOne ==
    /\ (ipc = "done" /\ InsightsRunFails) =>
          /\ iexit = 1
          /\ ioutput.written
          /\ "error" \in DOMAIN ioutput.doc
    /\ (tpc = "exited" /\ texit # 0) =>
          /\ ~traceback
          /\ texit = 1
          /\ Len(tstdout) > 0
          /\ "error" \in DOMAIN tstdout[Len(tstdout)]
    /\ (pc = "exited" /\ exit_status # 0) =>
          /\ exit_status = 1
          /\ Len(stdout) > 0
          /\ "error" \in DOMAIN stdout[Len(stdout)]
    /\ (cpc = "exited" /\ cexit # 0) =>
          /\ cexit = 1
          /\ Len(cstdout) > 0
          /\ "error" \in DOMAIN cstdout[Len(cstdout)]

\* A value held by its square lies within [0, 1].
InUnitRange(f) == 0 <= f[1] /\ f[1] <= f[2] /\ f[2] > 0

\* The column of the request's frame that has the given name.
SvcColumn(name) ==
    sreq.cols[CHOOSE k \in DOMAIN sreq.cols : sreq.cols[k].name = name]

\* The square of min(x, 1) is f, x being num / den.
IsCapped(f, num, den) ==
    IF num > den THEN f = <<1, 1>>
    ELSE f[1] * den * den = num * num * f[2]

\* C23: every insight of the insights route has a confidence and an
\* importance within [0, 1]; the importance of a missing-data insight is
\* min(null% / 10, 1), that of an outlier insight min(outlier% / 5, 1), and
\* the confidence and the importance of a correlation insight are both |r|
\* of its two columns.
C23_ServiceScoresInUnitRange ==
    sresp.status = 200 =>
        \A k \in DOMAIN sresp.data :
            LET insight == sresp.data[k]
            IN  /\ InUnitRange(insight.confidence)
                /\ InUnitRange(insight.importance)
                /\ insight.type = "missing_data" =>
                      LET col == SvcColumn(insight.column_name)
                      IN  IsCapped(insight.importance,
                                   10 * Cardinality(col.nulls \cap Labels(col)),
                                   Len(col.cells))
                /\ insight.type = "outlier" =>
                      LET col == SvcColumn(insight.column_name)
                      IN  IsCapped(insight.importance,
                                   20 * Cardinality(OutlierRows(col)),
                                   Len(col.cells))
                /\ insight.type = "correlation" =>
                      LET r == CorrOf(SvcColumn(insight.related_columns[1]),
                                      SvcColumn(insight.related_columns[2]))
                      IN  /\ insight.confidence = insight.importance
                          /\ insight.confidence[1] * r.var
                                = r.cov * r.cov * insight.confidence[2]

\* The route answered with a missing-data insight whose importance is 1,
\* a missing-data insight and an outlier insight whose importance is less,
\* and a correlation insight of a correlation that is not perfect.
C23_Witness ==
    /\ sresp.status = 200
    /\ \E k \in DOMAIN sresp.data :
          sresp.data[k].type = "missing_data" /\ sresp.data[k].importance = <<1, 1>>
    /\ \A t \in {"missing_data", "outlier"} :
          \E k \in DOMAIN sresp.data :
              sresp.data[k].type = t /\ sresp.data[k].importance # <<1, 1>>
    /\ \E k \in DOMAIN sresp.data :
          /\ sresp.data[k].type = "correlation"
          /\ sresp.data[k].confidence # <<1, 1>>

\* The sum of the numeric column num over the rows where the text column
\* cat holds the text t (over all its rows for t = "").
ShareSum(cat, num, t) ==
    SumFn([i \in DOMAIN num.cells |->
              IF /\ (i - 1) \notin num.nulls
                 /\ t = "" \/ ((i - 1) \notin cat.nulls /\ cat.cells[i] = t)
              THEN num.cells[i] ELSE 0],
          1, Len(num.cells))

\* Some group of a text column of the frame has more than 30% of the total
\* of a numeric column.
HasDominantGroup(cols) ==
    \E c, n \in DOMAIN cols :
        /\ cols[c].kind = "text"
        /\ cols[n].kind = "numeric"
        /\ \E i \in DOMAIN cols[c].cells :
              /\ (i - 1) \notin cols[c].nulls
              /\ 10 * ShareSum(cols[c], cols[n], cols[c].cells[i])
                    > 3 * ShareSum(cols[c], cols[n], "")

\* C25: when a group of a categorical column has more than 30% of the
\* total of a numeric column, the insights of the route, and those of the
\* insight generator, hold a top-contributor insight.
C25_TopContributorEmitted ==
    /\ (sresp.status = 200 /\ HasDominantGroup(sreq.cols)) =>
          \E k \in DOMAIN sresp.data :
              sresp.data[k].type \in {"top_contributor", "top-contributor"}
    /\ \A c \in Compiled :
          HasDominantGroup(ifiles.cols) =>
              \E k \in DOMAIN ireturns[c].insights :
                  ireturns[c].insights[k].type
                      \in {"top_contributor", "top-contributor"}

\* Two numeric columns of the frame have |r| > 0.7.
StronglyCorrelated(cols) ==
    \E i, j \in DOMAIN cols :
        /\ i < j
        /\ cols[i].kind = "numeric" /\ cols[j].kind = "numeric"
        /\ LET r == CorrOf(cols[i], cols[j])
           IN  ~IsNaN(r) /\ 100 * r.cov * r.cov > 49 * r.var

\* C26: when two numeric columns of the dataset have |r| > 0.7, the
\* insights list the insight generator returns holds an insight of type
\* 'correlation', whatever else it holds.
C26_CorrelationInsightListed ==
    \A c \in Compiled :
        StronglyCorrelated(ifiles.cols) =>
            \E k \in DOMAIN ireturns[c].insights :
                ireturns[c].insights[k].type = "correlation"

\* The frame is a time series: it has more than 10 rows, a date column
\* and a numeric column that, in the order of the dates, rises by the same
\* positive step from each row to the next.
RisesSteadily(cols) ==
    \E d, v \in DOMAIN cols :
        /\ HeadParses(cols[d]) /\ ColumnParses(cols[d])
        /\ cols[v].kind = "numeric"
        /\ Len(cols[v].cells) > 10
        /\ LET y == InOrder(cols[v], DateOrder(cols[d]))
           IN  /\ y[2] > y[1]
               /\ \A k \in 1 .. Len(y) - 1 : y[k + 1] - y[k] = y[2] - y[1]

\* C27: for a time series of more than 10 rows whose numeric column rises
\* linearly along its date column, the insights the insight generator
\* returns hold an insight of type 'trend'.
C27_SteadyRiseGivesTrend ==
    \A c \in Compiled :
        RisesSteadily(ifiles.cols) =>
            \E k \in DOMAIN ireturns[c].insights :
                ireturns[c].insights[k].type = "trend"

\* C28: each call of generate_insights enters its stages once each in the
\* order correlations, outliers, trends, feature importance, summary
\* statistics, data-quality issues, compile; when no stage raises, all
\* seven are entered and the document holds the insights; when a stage
\* raises an exception it does not catch, no later stage is entered, and
\* the document returned holds the key 'error' and nothing else.
C28_LinearPassAbortsOnError ==
    \A c \in DOMAIN ireturns :
        /\ \E k \in 0 .. Len(StageOrder) : istages[c] = SubSeq(StageOrder, 1, k)
        /\ (ifiles.data_readable /\ ifiles.metadata_readable) =>
              IF ifiles.raises = 0
              THEN istages[c] = StageOrder /\ c \in Compiled
              ELSE /\ istages[c][Len(istages[c])] = StageOrder[ifiles.raises]
                   /\ DOMAIN ireturns[c] = {"error"}

\* A stage after the second raised in a call, on an instance that held
\* insights by then.
C28_Witness ==
    /\ Len(ireturns) > 0
    /\ ifiles.data_readable /\ ifiles.metadata_readable
    /\ ifiles.raises > 2
    /\ Len(generator.insights) > 0
    /\ DOMAIN ireturns[1] = {"error"}

---------------------------------------------------------------------------
(* Properties of the semantic analyzer, checked under SpecSemantic.        *)

\* The classifications the run wrote and those the calls of classify_column
\* returned.
Classified ==
    {areturns[c].result :
        c \in {d \in DOMAIN areturns : areturns[d].call = "classify_column"}}
    \cup (IF aoutput = NoFile THEN {}
          ELSE {aoutput.doc.classifications[k] :
                    k \in DOMAIN aoutput.doc.classifications})

\* C22: every classification classify_column returns, by name analysis or
\* by value analysis, has a confidence of 0 to 1.
C22_ConfidenceInUnitRange ==
    \A r \in Classified : 0 <= r.confidence /\ r.confidence <= 1

\* The calls of analyze_column_name.
NameCalls == {c \in DOMAIN areturns : areturns[c].call = "analyze_column_name"}

\* C24: analyze_column_name returns the category of the highest score
\* with that score, and ('generic', 0) when several categories share the
\* highest score.
C24_MaxScoreTiesGeneric ==
    \A c \in NameCalls :
        LET column == ainput.columns[areturns[c].column]
            scores == name_scores(column.name, column.type)
            winners == {w \in DOMAIN scores :
                           \A d \in DOMAIN scores : scores[d] <= scores[w]}
        IN  IF Cardinality(winners) = 1
            THEN \E w \in winners :
                    areturns[c].result = <<semantic_categories[w].category, scores[w]>>
            ELSE areturns[c].result = <<"generic", 0>>

====
